---------------------------- MODULE Spec2Model ----------------------------
(***************************************************************************)
(* State-machine model of the apartment-placement engine                   *)
(* (src/plan_mix_solver/solver.py, class ApartmentSolver).                 *)
(*                                                                         *)
(* Cells are pairs <<x, y>>, lists are sequences, dictionaries are         *)
(* functions.  Python floats are modelled by exact numbers, see Num.       *)
(* Apartment sizes are kept in half-cell units (size2 = 2 * size).         *)
(***************************************************************************)
EXTENDS Integers, Sequences, FiniteSets, TLC

(***************************************************************************)
(* Exact numbers for Python's floats.  The values the program computes     *)
(* (ratios, variances, scores) are rationals whose numerators and          *)
(* denominators outgrow a machine word, so they are kept as natural        *)
(* numbers in radix Base: a Nat is the sequence of its digits, lowest      *)
(* first, without leading zeros (0 is <<>>); the radix only bounds a       *)
(* digit, the numbers are the same for any radix.                          *)
(*                                                                         *)
(* The exact value stands for the float: two scores or distances that are  *)
(* equal as exact numbers compare equal here, while the program's floats   *)
(* may differ in the last bit and so order two such solutions either way.  *)
(* A tie in the properties below is a tie of the exact values.            *)
(***************************************************************************)
Base == 10000

Abs(i) == IF i < 0 THEN -i ELSE i

Max2(a, b) == IF a >= b THEN a ELSE b

Min2(a, b) == IF a <= b THEN a ELSE b

RECURSIVE Gcd(_, _)
Gcd(a, b) == IF b = 0 THEN a ELSE Gcd(b, a % b)

RECURSIVE NatOf(_)
NatOf(n) == IF n = 0 THEN <<>> ELSE <<n % Base>> \o NatOf(n \div Base)

RECURSIVE NatAddC(_, _, _)
NatAddC(a, b, carry) ==
    IF a = <<>> /\ b = <<>>
    THEN (IF carry = 0 THEN <<>> ELSE <<carry>>)
    ELSE LET x == (IF a = <<>> THEN 0 ELSE Head(a))
                    + (IF b = <<>> THEN 0 ELSE Head(b)) + carry
         IN  <<x % Base>> \o NatAddC(IF a = <<>> THEN <<>> ELSE Tail(a),
                                     IF b = <<>> THEN <<>> ELSE Tail(b),
                                     x \div Base)

NatAdd(a, b) == NatAddC(a, b, 0)

\* -1, 0, 1 as a < b, a = b, a > b
NatCmp(a, b) ==
    IF Len(a) # Len(b) THEN (IF Len(a) < Len(b) THEN -1 ELSE 1)
    ELSE LET diff == {i \in DOMAIN a : a[i] # b[i]}
         IN  IF diff = {} THEN 0
             ELSE LET m == CHOOSE i \in diff : \A j \in diff : j <= i
                  IN  IF a[m] < b[m] THEN -1 ELSE 1

RECURSIVE Strip(_)
Strip(a) ==
    IF a = <<>> \/ a[Len(a)] # 0 THEN a ELSE Strip(SubSeq(a, 1, Len(a) - 1))

\* a - b for a >= b, digit by digit; the leading zeros are stripped by NatSub
RECURSIVE NatSubB(_, _, _)
NatSubB(a, b, borrow) ==
    IF a = <<>> THEN <<>>
    ELSE LET x == Head(a) - (IF b = <<>> THEN 0 ELSE Head(b)) - borrow
         IN  <<x % Base>> \o NatSubB(Tail(a),
                                     IF b = <<>> THEN <<>> ELSE Tail(b),
                                     IF x < 0 THEN 1 ELSE 0)

NatSub(a, b) == Strip(NatSubB(a, b, 0))

RECURSIVE NatMulDigit(_, _, _)
NatMulDigit(a, d, carry) ==
    IF a = <<>> THEN (IF carry = 0 THEN <<>> ELSE <<carry>>)
    ELSE LET x == Head(a) * d + carry
         IN  <<x % Base>> \o NatMulDigit(Tail(a), d, x \div Base)

RECURSIVE NatMul(_, _)
NatMul(a, b) ==
    IF a = <<>> \/ b = <<>> THEN <<>>
    ELSE LET rest == NatMul(a, Tail(b))
             low == IF Head(b) = 0 THEN <<>> ELSE NatMulDigit(a, Head(b), 0)
         IN  NatAdd(low, IF rest = <<>> THEN <<>> ELSE <<0>> \o rest)

(***************************************************************************)
(* A Num <<s, n, d>> is the rational s * n / d: s its sign (-1, 0, 1), n   *)
(* and d Nats, d > 0.  A Num is not reduced to lowest terms, so two Nums   *)
(* are compared with NumEq, NumLess and NumLeq, never with =.              *)
(***************************************************************************)
NumMake(s, n, d) == IF n = <<>> \/ s = 0 THEN <<0, <<>>, <<1>>>> ELSE <<s, n, d>>

\* n / d for machine integers, d # 0, in lowest terms
Rat(n, d) ==
    LET g == Gcd(Abs(n), Abs(d))
    IN  NumMake(IF (n < 0) = (d < 0) THEN 1 ELSE -1,
                NatOf(Abs(n) \div g), NatOf(Abs(d) \div g))

NumInt(n) == Rat(n, 1)

NumNeg(p) == <<-p[1], p[2], p[3]>>

\* the sum of the signed naturals <<s1, a>> and <<s2, b>>, over the denominator d
SignedSum(s1, a, s2, b, d) ==
    IF s1 = 0 THEN NumMake(s2, b, d)
    ELSE IF s2 = 0 THEN NumMake(s1, a, d)
    ELSE IF s1 = s2 THEN NumMake(s1, NatAdd(a, b), d)
    ELSE LET c == NatCmp(a, b)
         IN  IF c = 0 THEN NumMake(0, <<>>, d)
             ELSE IF c > 0 THEN NumMake(s1, NatSub(a, b), d)
             ELSE NumMake(s2, NatSub(b, a), d)

NumAdd(p, q) ==
    IF p[3] = q[3] THEN SignedSum(p[1], p[2], q[1], q[2], p[3])
    ELSE SignedSum(p[1], NatMul(p[2], q[3]), q[1], NatMul(q[2], p[3]),
                   NatMul(p[3], q[3]))

NumSub(p, q) == NumAdd(p, NumNeg(q))

NumMul(p, q) == NumMake(p[1] * q[1], NatMul(p[2], q[2]), NatMul(p[3], q[3]))

\* division by a machine integer k > 0
NumDivInt(p, k) == NumMake(p[1], p[2], NatMul(p[3], NatOf(k)))

NumSign(p) == p[1]

\* -1, 0, 1 as p < q, p = q, p > q
NumCmp(p, q) ==
    IF p[1] # q[1] THEN (IF p[1] < q[1] THEN -1 ELSE 1)
    ELSE IF p[1] = 0 THEN 0
    ELSE p[1] * NatCmp(NatMul(p[2], q[3]), NatMul(q[2], p[3]))

NumEq(p, q) == NumCmp(p, q) = 0

NumLess(p, q) == NumCmp(p, q) < 0

NumLeq(p, q) == NumCmp(p, q) <= 0

RECURSIVE NumSum(_)
NumSum(s) == IF s = <<>> THEN NumInt(0) ELSE NumAdd(Head(s), NumSum(Tail(s)))

NumSq(p) == NumMul(p, p)

\* 1 / 1e-6, the reciprocal of the epsilon floor of the moment ratio
EpsInv == 1000000

(***************************************************************************)
(* Optional values (None / a value) are sequences of length 0 or 1.        *)
(***************************************************************************)
None == <<>>

Some(v) == <<v>>

Range(s) == {s[i] : i \in DOMAIN s}

\* [x for x in s if Test(x)], order kept
RECURSIVE SelectIdx(_, _, _)
SelectIdx(s, keep, i) ==
    IF i > Len(s) THEN <<>>
    ELSE IF i \in keep THEN <<s[i]>> \o SelectIdx(s, keep, i + 1)
    ELSE SelectIdx(s, keep, i + 1)

\* the sequence with every element computed
Listed(s) == SubSeq(s, 1, Len(s))

\* Python's stable sort, list.sort(key=...): keys[i] is the key of s[i], a
\* Num; ascending, equal keys keep their list order.  SortIdx inserts the
\* indices one by one, each after the indices whose key is not larger.
InsertAt(acc, i, at) ==
    SubSeq(acc, 1, at - 1) \o <<i>> \o SubSeq(acc, at, Len(acc))

FirstOf(later, default) ==
    IF later = {} THEN default
    ELSE CHOOSE p \in later : \A q \in later : p <= q

InsertIdx(acc, i, keys) ==
    InsertAt(acc, i,
             FirstOf({p \in DOMAIN acc : NumLess(keys[i], keys[acc[p]])},
                     Len(acc) + 1))

RECURSIVE SortIdx(_, _, _)
SortIdx(keys, i, acc) ==
    IF i > Len(keys) THEN acc
    ELSE SortIdx(keys, i + 1, InsertIdx(acc, i, keys))

Permuted(s, perm) == Listed([k \in DOMAIN perm |-> s[perm[k]]])

StableSort(s, keys) == Permuted(s, SortIdx(Listed(keys), 1, <<>>))

(***************************************************************************)
(* Apartment type names are strings of characters, kept as sequences of    *)
(* one-character strings, so that the numeric prefix is parsed as the code *)
(* parses it: float(apt_type.replace('p', '').split('_')[0]).              *)
(***************************************************************************)
Digits == {"0", "1", "2", "3", "4", "5", "6", "7", "8", "9"}

DigitVal(c) ==
    CASE c = "0" -> 0 [] c = "1" -> 1 [] c = "2" -> 2 [] c = "3" -> 3
      [] c = "4" -> 4 [] c = "5" -> 5 [] c = "6" -> 6 [] c = "7" -> 7
      [] c = "8" -> 8 [] c = "9" -> 9

\* Code points, for sorted() on type names.
CharCode(c) ==
    CASE c \in Digits -> 48 + DigitVal(c)
      [] c = "." -> 46
      [] c = "T" -> 84
      [] c = "_" -> 95
      [] c = "p" -> 112

\* str.replace('p', '')
RECURSIVE RemoveP(_)
RemoveP(s) ==
    IF s = <<>> THEN <<>>
    ELSE IF Head(s) = "p" THEN RemoveP(Tail(s))
    ELSE <<Head(s)>> \o RemoveP(Tail(s))

\* str.split('_')[0]
RECURSIVE BeforeUnderscore(_)
BeforeUnderscore(s) ==
    IF s = <<>> \/ Head(s) = "_" THEN <<>>
    ELSE <<Head(s)>> \o BeforeUnderscore(Tail(s))

RECURSIVE DigitsValue(_)
DigitsValue(s) ==
    IF s = <<>> THEN 0
    ELSE 10 * DigitsValue(SubSeq(s, 1, Len(s) - 1)) + DigitVal(s[Len(s)])

RECURSIVE Pow10(_)
Pow10(k) == IF k = 0 THEN 1 ELSE 10 * Pow10(k - 1)

\* float(text) for a text over digits, '.', and letters: a plain decimal
\* literal or a ValueError (ok = FALSE).
FloatOf(text) ==
    LET dots == {i \in DOMAIN text : text[i] = "."}
        digs == {i \in DOMAIN text : text[i] \in Digits}
        ok == /\ digs # {}
              /\ Cardinality(dots) <= 1
              /\ dots \cup digs = DOMAIN text
        all == SelectIdx(text, digs, 1)
        frac == IF dots = {} THEN 0
                ELSE Len(text) - (CHOOSE i \in dots : TRUE)
    IN  [ok |-> ok,
         val |-> IF ok THEN Rat(DigitsValue(all), Pow10(frac)) ELSE NumInt(0)]

\* float(apt_type.replace('p', '').split('_')[0])
RoomCount(apt_type) == FloatOf(BeforeUnderscore(RemoveP(apt_type)))

\* Python 3 round() of n/d to an integer: ties go to the even neighbour.
RoundHalfEven(n, d) ==
    LET f == n \div d
        r == n - f * d
    IN  IF 2 * r < d THEN f
        ELSE IF 2 * r > d THEN f + 1
        ELSE IF f % 2 = 0 THEN f ELSE f + 1

\* the machine integer s * n of a Num <<s, n, d>> whose n has one digit
IntOf(p) == IF p[2] = <<>> THEN 0 ELSE p[1] * p[2][1]

\* int(round(n_pieces - 1.5)), floored at 0
IntRound(x) == RoundHalfEven(IntOf(x), IntOf(<<1, x[3], <<1>>>>))

DefaultFacade(apt_type) ==
    Max2(0, IntRound(NumSub(RoomCount(apt_type).val, Rat(3, 2))))

\* sorted() order of two type names (lexicographic by code point)
RECURSIVE StrLess(_, _)
StrLess(s, t) ==
    IF t = <<>> THEN FALSE
    ELSE IF s = <<>> THEN TRUE
    ELSE IF CharCode(Head(s)) # CharCode(Head(t))
         THEN CharCode(Head(s)) < CharCode(Head(t))
    ELSE StrLess(Tail(s), Tail(t))

(***************************************************************************)
(* The solver object.  cfg holds the constructor's arguments; the other    *)
(* variables are the attributes __init__ computes and the search state.    *)
(***************************************************************************)
VARIABLES
    cfg,                      \* the constructor's arguments
    pc,                       \* "new", "ready", "search", "done", "error";
                              \* "none" where no engine is constructed
    facade_requirements,      \* self.facade_requirements
    partially_blocked_cells,  \* self.partially_blocked_cells
    solutions,                \* self.solutions
    seen_signatures,          \* self._seen_signatures
    stack,                    \* the active _backtrack calls, innermost last
    placed,                   \* the placed-apartment records of the current branch
    result,                   \* what solve() returned
    _combos_cache,            \* the module-level cache of combinations.py
    combos,                   \* the last call of all_sum_combinations
    n_calls                   \* the number of calls of all_sum_combinations

\* the state of the subset-sum enumerator; the placement engine does not
\* call it
combos_vars == <<_combos_cache, combos, n_calls>>

vars == <<cfg, pc, facade_requirements, partially_blocked_cells, solutions,
          seen_signatures, stack, placed, result, _combos_cache, combos,
          n_calls>>

\* the neighbour order used throughout: [(0, 1), (1, 0), (0, -1), (-1, 0)]
Dirs == <<<<0, 1>>, <<1, 0>>, <<0, -1>>, <<-1, 0>>>>

\* a neighbour list whose first offset is (1, 1) where the code has (0, 1)
NbrDiagonal(c, k) ==
    IF k = 1 THEN <<c[1] + 1, c[2] + 1>>
    ELSE <<c[1] + Dirs[k][1], c[2] + Dirs[k][2]>>

Nbr(c, k) == <<c[1] + Dirs[k][1], c[2] + Dirs[k][2]>>

Neighbours(c) == {Nbr(c, k) : k \in 1..4}

\* abs(size - int(size) - 0.5) < 1e-9, on half-cell units
IsHalf(size2) == size2 > 0 /\ size2 % 2 = 1

\* a rounding up where the code rounds down
CeilSize(size2) == (size2 + 1) \div 2

\* int(np.floor(size))
FloorSize(size2) == size2 \div 2

\* a contact test that also accepts the diagonal neighbours
TouchesWithDiagonals(cells) ==
    \E i \in DOMAIN cells : \E d \in cfg.circulation_cells :
        /\ Abs(cells[i][1] - d[1]) <= 1
        /\ Abs(cells[i][2] - d[2]) <= 1

_touches_circulation(cells) ==
    \E i \in DOMAIN cells : \E k \in 1..4 :
        Nbr(cells[i], k) \in cfg.circulation_cells

OnFacade(c) ==
    \/ c[1] = 0 \/ c[1] = cfg.n_cells_x - 1
    \/ c[2] = 0 \/ c[2] = cfg.n_cells_y - 1

\* a facade count whose far sides are n_cells_x and n_cells_y, one too far
CountFacadeOffByOne(cells) ==
    Cardinality({i \in DOMAIN cells :
        \/ cells[i][1] = 0 \/ cells[i][1] = cfg.n_cells_x
        \/ cells[i][2] = 0 \/ cells[i][2] = cfg.n_cells_y})

_count_facade_cells(cells) ==
    Cardinality({i \in DOMAIN cells : OnFacade(cells[i])})

\* number of (cell, direction) pairs whose neighbour is in the region
Contacts(cells) ==
    LET cell_set == Range(cells)
    IN  Cardinality({p \in (DOMAIN cells) \X (1..4) :
                        Nbr(cells[p[1]], p[2]) \in cell_set})

_calculate_compactness(cells) == Rat(Contacts(cells), 2)

\* a count of the cells with two neighbours in the region, in line or not
CountDegreeTwo(cells) ==
    Cardinality({i \in DOMAIN cells :
        Cardinality({k \in 1..4 : Nbr(cells[i], k) \in Range(cells)}) = 2})

_count_enfilade_cells(cells) ==
    LET cell_set == Range(cells)
        nbs(c) == {k \in 1..4 : Nbr(c, k) \in cell_set}
    IN  Cardinality({i \in DOMAIN cells :
            LET ks == nbs(cells[i])
            IN  /\ Cardinality(ks) = 2
                /\ \E k1, k2 \in ks :
                      /\ k1 < k2
                      /\ \/ Nbr(cells[i], k1)[1] = Nbr(cells[i], k2)[1]
                         \/ Nbr(cells[i], k1)[2] = Nbr(cells[i], k2)[2]})

RECURSIVE SumInts(_)
SumInts(s) == IF s = <<>> THEN 0 ELSE Head(s) + SumInts(Tail(s))

SetMax(S) == CHOOSE m \in S : \A n \in S : n <= m

SetMin(S) == CHOOSE m \in S : \A n \in S : m <= n

\* n * sum((v - mean) ** 2) for the integer list vs of length n
ScaledMoment(vs) ==
    Len(vs) * SumInts([i \in DOMAIN vs |-> vs[i] * vs[i]])
        - SumInts(vs) * SumInts(vs)

_calculate_shape_descriptors(cells) ==
    IF cells = <<>>
    THEN [aspect_ratio |-> NumInt(1), normalized_perimeter |-> NumInt(0),
          moment_ratio |-> NumInt(1)]
    ELSE
    LET xs == [i \in DOMAIN cells |-> cells[i][1]]
        ys == [i \in DOMAIN cells |-> cells[i][2]]
        width == SetMax(Range(xs)) - SetMin(Range(xs)) + 1
        height == SetMax(Range(ys)) - SetMin(Range(ys)) + 1
        area == Len(cells)
        cell_set == Range(cells)
        perimeter == Cardinality({p \in (DOMAIN cells) \X (1..4) :
                                    Nbr(cells[p[1]], p[2]) \notin cell_set})
        \* Ixx = nIxx / area, Iyy = nIyy / area
        nIxx == ScaledMoment(ys)
        nIyy == ScaledMoment(xs)
        hi == Max2(nIxx, nIyy)
        lo == Min2(nIxx, nIyy)
    IN  [aspect_ratio |-> Rat(Max2(width, height), Max2(Min2(width, height), 1)),
         normalized_perimeter |-> Rat(perimeter, area),
         \* max(Ixx, Iyy) / max(min(Ixx, Iyy), 1e-6): a non-zero smaller
         \* moment is at least 1/area, above the floor for any region of
         \* fewer than 10^6 cells; a zero one is replaced by the floor.
         moment_ratio |-> IF lo > 0 THEN Rat(hi, lo)
                          ELSE NumMul(Rat(hi, area), NumInt(EpsInv))]

DescKeys == <<"aspect_ratio", "normalized_perimeter", "moment_ratio">>

\* population variance of one descriptor over the list descs
KeyVariance(descs, key) ==
    LET n == Len(descs)
        values == [i \in 1..n |-> descs[i][key]]
        mean == NumDivInt(NumSum(values), n)
    IN  NumDivInt(NumSum([i \in 1..n |-> NumSq(NumSub(values[i], mean))]), n)

_calculate_shape_variance(shape_descriptors) ==
    IF Len(shape_descriptors) <= 1 THEN NumInt(0)
    ELSE NumDivInt(NumSum([k \in 1..3 |->
                        KeyVariance(shape_descriptors, DescKeys[k])]), 3)

(***************************************************************************)
(* Region finder.  A grid is a function from the cells of the building to  *)
(* labels: 0 free, -1 circulation, k >= 1 apartment k.                     *)
(***************************************************************************)
InGrid(c) ==
    /\ 0 <= c[1] /\ c[1] < cfg.n_cells_x
    /\ 0 <= c[2] /\ c[2] < cfg.n_cells_y

\* the cells in the order of "for y in range(n_cells_y): for x in range(n_cells_x)"
RowMajor(w, h) == [i \in 1..(w * h) |-> <<(i - 1) % w, (i - 1) \div w>>]

\* the while loop of _flood_fill
RECURSIVE FloodLoop(_, _, _, _, _)
FloodLoop(grid, queue, visited, cells, target_size) ==
    IF queue = <<>> \/ Len(cells) >= target_size
    THEN IF Len(cells) = target_size THEN Some(cells) ELSE None
    ELSE
    LET c == Head(queue)
        rest == Tail(queue)
    IN  IF \/ c \in visited
           \/ ~InGrid(c)
           \/ grid[c] # 0
           \/ c \in partially_blocked_cells
        THEN FloodLoop(grid, rest, visited, cells, target_size)
        ELSE
        LET visited2 == visited \cup {c}
            push == SelectIdx([k \in 1..4 |-> Nbr(c, k)],
                              {k \in 1..4 : Nbr(c, k) \notin visited2}, 1)
        IN  FloodLoop(grid, rest \o push, visited2, Append(cells, c),
                      target_size)

\* a flood fill without the test "if grid[y, x] != 0: continue"
FloodFillAnyLabel(grid, start, target_size) ==
    FloodLoop([c \in DOMAIN grid |-> 0], <<start>>, {}, <<>>, target_size)

_flood_fill(grid, start, target_size) ==
    FloodLoop(grid, <<start>>, {}, <<>>, target_size)

\* candidate_starts after the sort by (not near_circ, not on_facade)
CandidateStarts(grid) ==
    LET all == RowMajor(cfg.n_cells_x, cfg.n_cells_y)
        ok == SelectIdx(all, {i \in DOMAIN all :
                                /\ grid[all[i]] = 0
                                /\ all[i] \notin partially_blocked_cells}, 1)
        near_circ(c) == \E k \in 1..4 : Nbr(c, k) \in cfg.circulation_cells
        \* the rank of the key (not near_circ, not on_facade)
        key(c) == (IF near_circ(c) THEN 0 ELSE 2) + (IF OnFacade(c) THEN 0 ELSE 1)
    IN  StableSort(ok, [i \in DOMAIN ok |-> NumInt(key(ok[i]))])

\* the loop over candidate_starts of _find_all_placements
RECURSIVE CollectPlacements(_, _, _, _)
CollectPlacements(grid, starts, target_cells, placements) ==
    IF starts = <<>> THEN placements
    ELSE
    LET placement == _flood_fill(grid, Head(starts), target_cells)
        keep == /\ placement # None
                /\ placement[1] # <<>>
                /\ Len(placement[1]) = target_cells
                /\ \A i \in DOMAIN placements :
                      Range(placements[i]) # Range(placement[1])
    IN  CollectPlacements(grid, Tail(starts), target_cells,
            IF keep THEN Append(placements, placement[1]) ELSE placements)

\* a finder that fills from the first start cell only
FindFromFirstStart(grid, size2) ==
    CollectPlacements(grid,
        SubSeq(CandidateStarts(grid), 1, Min2(1, Len(CandidateStarts(grid)))),
        FloorSize(size2), <<>>)

_find_all_placements(grid, size2) ==
    CollectPlacements(grid, CandidateStarts(grid), FloorSize(size2), <<>>)

(***************************************************************************)
(* Constraint checker.                                                     *)
(***************************************************************************)
\* a checker without the test of the contact with the circulation
CheckWithoutCirculation(cells, apt_type) ==
    IF _count_facade_cells(cells) < facade_requirements[apt_type]
    THEN "False"
    ELSE "True"

\* "True", "False", or "ValueError" when the type name has no numeric prefix
\* (the float() of the half-cell remark, evaluated after the facade check).
_check_constraints(cells, apt_type) ==
    IF ~_touches_circulation(cells) THEN "False"
    ELSE IF _count_facade_cells(cells) < facade_requirements[apt_type]
         THEN "False"
    ELSE IF ~RoomCount(apt_type).ok THEN "ValueError"
    ELSE IF /\ cfg.max_enfilade_cells_per_apartment # None
            /\ _count_enfilade_cells(cells)
                  > cfg.max_enfilade_cells_per_apartment[1]
         THEN "False"
    ELSE "True"

Sides == <<"top", "bottom", "left", "right">>

SideCount(cells, side) ==
    LET cell_set == Range(cells)
        out(c) == CASE side = "top" -> <<c[1], c[2] - 1>>
                    [] side = "bottom" -> <<c[1], c[2] + 1>>
                    [] side = "left" -> <<c[1] - 1, c[2]>>
                    [] side = "right" -> <<c[1] + 1, c[2]>>
    IN  Cardinality({i \in DOMAIN cells : out(cells[i]) \notin cell_set})

\* a selection that is the top side for every region
AlwaysTop(cells) == Some("top")

\* the first side, in the order of Sides, with the largest count; None if
\* that count is 0
_select_half_side_any_boundary(cells) ==
    LET counts == [k \in 1..4 |-> SideCount(cells, Sides[k])]
        best == CHOOSE k \in 1..4 :
                    /\ \A j \in 1..4 : counts[j] <= counts[k]
                    /\ \A j \in 1..(k - 1) : counts[j] < counts[k]
    IN  IF counts[best] > 0 THEN Some(Sides[best]) ELSE None

(***************************************************************************)
(* Similarity filter.                                                      *)
(***************************************************************************)
NumMax(a, b) == IF NumLess(a, b) THEN b ELSE a

NumMin(a, b) == IF NumLess(b, a) THEN b ELSE a

\* max(0.1, min(2.0, 100.0 / shape_variance_weight)), for a weight # 0
StrictnessFactor(weight) ==
    NumMax(Rat(1, 10), NumMin(NumInt(2), Rat(100, weight)))

\* if current_variance < 0.01: max(0.15, distance_threshold * 0.7)
Tightened(distance_threshold, current_variance) ==
    IF NumLess(current_variance, Rat(1, 100))
    THEN NumMax(Rat(15, 100), NumMul(distance_threshold, Rat(7, 10)))
    ELSE distance_threshold

\* the distance threshold in force for the given current variance
DistanceThreshold(weight, current_variance) ==
    Tightened(StrictnessFactor(weight), current_variance)

\* the square of the Euclidean distance between desc and avg_descriptors
Distance2(desc, avg_descriptors) ==
    NumSum([k \in 1..3 |->
        NumSq(NumSub(desc[DescKeys[k]], avg_descriptors[DescKeys[k]]))])

\* np.mean of one descriptor over the placed apartments
AvgKey(existing_descriptors, key) ==
    NumDivInt(NumSum([i \in DOMAIN existing_descriptors |->
                        existing_descriptors[i][key]]),
              Len(existing_descriptors))

AvgDescriptors(existing_descriptors) ==
    [k \in {"aspect_ratio", "normalized_perimeter", "moment_ratio"} |->
        AvgKey(existing_descriptors, k)]

\* the squared distance of every placement to the average descriptors
Distances2(placements, avg_descriptors) ==
    Listed([i \in DOMAIN placements |->
        Distance2(_calculate_shape_descriptors(placements[i]),
                  avg_descriptors)])

\* a filter that keeps every placement, whatever its distance
KeepAllIdx(placements, dist2, limit2) == [i \in DOMAIN placements |-> i]

\* the indices of the placements with distance <= threshold (both are
\* non-negative and are compared by their squares), in placement order
SimilarIdx(placements, dist2, limit2) ==
    SelectIdx([i \in DOMAIN placements |-> i],
              {i \in DOMAIN placements : NumLeq(dist2[i], limit2)}, 1)

\* filtered.sort(key=lambda x: x[1]); return [p for p, _ in filtered]
SortedByDistance(placements, dist2, kept) ==
    [err |-> FALSE,
     list |-> Listed([k \in DOMAIN kept |->
                placements[StableSort(kept,
                    [a \in DOMAIN kept |-> dist2[kept[a]]])[k]]])]

FilterByDistance(placements, dist2, limit2) ==
    SortedByDistance(placements, dist2,
                     SimilarIdx(placements, dist2, limit2))

FilterAgainst(placements, existing_descriptors) ==
    FilterByDistance(placements,
        Distances2(placements, AvgDescriptors(existing_descriptors)),
        NumSq(DistanceThreshold(cfg.shape_variance_weight,
                _calculate_shape_variance(existing_descriptors))))

\* [err |-> a ZeroDivisionError was raised, list |-> the list returned]
_filter_similar_shapes_strict(placements, placed_apts) ==
    IF placements = <<>> \/ placed_apts = <<>>
    THEN [err |-> FALSE, list |-> placements]
    ELSE IF cfg.shape_variance_weight = 0
    THEN [err |-> TRUE, list |-> <<>>]
    ELSE FilterAgainst(placements,
            [i \in DOMAIN placed_apts |-> placed_apts[i].shape_descriptors])

(***************************************************************************)
(* Half-cell resolver (fine grid: 2 x 2 sub-cells per cell).               *)
(***************************************************************************)
InFineGrid(c) ==
    /\ 0 <= c[1] /\ c[1] < cfg.n_cells_x * 2
    /\ 0 <= c[2] /\ c[2] < cfg.n_cells_y * 2

\* the sub-cells of the cells, in the order "for (x, y): for dy: for dx"
ExpandCells(cells) ==
    [j \in 1..(4 * Len(cells)) |->
        LET c == cells[((j - 1) \div 4) + 1]
            o == (j - 1) % 4
        IN  <<c[1] * 2 + (o % 2), c[2] * 2 + (o \div 2)>>]

\* the coarse grid copied on the fine grid, then the fine circulation stamped
InitialFineGrid(grid) ==
    [c \in (0..(cfg.n_cells_x * 2 - 1)) \X (0..(cfg.n_cells_y * 2 - 1)) |->
        IF c \in cfg.fine_circulation_cells THEN -1
        ELSE grid[<<c[1] \div 2, c[2] \div 2>>]]

\* the second sub-cell of a pair, in the order the code tries them:
\* vertical (+1, -1), then horizontal (+1, -1)
PairSecond(c1, o) ==
    CASE o = 1 -> <<c1[1], c1[2] + 1>>
      [] o = 2 -> <<c1[1], c1[2] - 1>>
      [] o = 3 -> <<c1[1] + 1, c1[2]>>
      [] o = 4 -> <<c1[1] - 1, c1[2]>>

\* candidate_pairs[0] as Some(<<first, second>>), or None when the list is empty
FirstCandidatePair(fine_grid, fine_cells) ==
    LET fine_cells_set == Range(fine_cells)
        free(c) == InFineGrid(c) /\ fine_grid[c] = 0
        valid == {t \in (DOMAIN fine_cells) \X (1..4) \X (1..4) :
                    LET c1 == Nbr(fine_cells[t[1]], t[2])
                    IN  /\ c1 \notin fine_cells_set
                        /\ free(c1)
                        /\ free(PairSecond(c1, t[3]))}
        pos(t) == ((t[1] - 1) * 4 + (t[2] - 1)) * 4 + t[3]
    IN  IF valid = {} THEN None
        ELSE LET t == CHOOSE u \in valid : \A v \in valid : pos(u) <= pos(v)
                 c1 == Nbr(fine_cells[t[1]], t[2])
             IN  Some(<<c1, PairSecond(c1, t[3])>>)

\* the record with 'fine_cells' and 'uses_half_cell' assigned
WithFineCells(apt_info, fine_cells, uses_half_cell) ==
    [f \in DOMAIN apt_info \cup {"fine_cells", "uses_half_cell"} |->
        IF f = "fine_cells" THEN fine_cells
        ELSE IF f = "uses_half_cell" THEN uses_half_cell
        ELSE apt_info[f]]

\* "fine_grid[y1, x1] = apt_id; fine_grid[y2, x2] = apt_id"
StampPair(fine_grid, pair, apt_id) ==
    [c \in DOMAIN fine_grid |->
        IF c = pair[1] \/ c = pair[2] THEN apt_id ELSE fine_grid[c]]

\* one apartment with a half cell, candidate_pairs[0] being pair (Optional)
AddPair(fine_grid, updated_apartments, apt_info, apt_id, fine_cells, pair) ==
    IF pair = None THEN None
    ELSE Some(<<StampPair(fine_grid, pair[1], apt_id),
                Append(updated_apartments,
                       WithFineCells(apt_info, fine_cells \o pair[1], TRUE))>>)

\* the body of the loop over apartments.items() for one apartment
ResolveApartment(fine_grid, updated_apartments, apt_info, apt_id, fine_cells) ==
    IF IsHalf(apt_info.size)
    THEN AddPair(fine_grid, updated_apartments, apt_info, apt_id, fine_cells,
                 FirstCandidatePair(fine_grid, fine_cells))
    ELSE Some(<<fine_grid,
                Append(updated_apartments,
                       WithFineCells(apt_info, fine_cells, FALSE))>>)

\* the loop over apartments.items() of _add_half_cells, from apartment apt_id
\* on; state is None once the method has returned None, else
\* Some(<<fine_grid, updated_apartments>>)
RECURSIVE HalfCellLoop(_, _, _)
HalfCellLoop(state, apartments, apt_id) ==
    IF state = None \/ apt_id > Len(apartments) THEN state
    ELSE HalfCellLoop(
            ResolveApartment(state[1][1], state[1][2], apartments[apt_id],
                             apt_id, ExpandCells(apartments[apt_id].cells)),
            apartments, apt_id + 1)

_add_half_cells(grid, apartments) ==
    IF ~cfg.use_fine_grid THEN None
    ELSE HalfCellLoop(Some(<<InitialFineGrid(grid), <<>>>>), apartments, 1)

(***************************************************************************)
(* Solution recorder.                                                      *)
(***************************************************************************)
\* apt_info.get('fine_cells', apt_info['cells'])
CellsOf(apt_info) ==
    IF "fine_cells" \in DOMAIN apt_info THEN apt_info.fine_cells
    ELSE apt_info.cells

\* the record with 'compactness' and 'shape_descriptors' (re)assigned
Scored(apt_info) ==
    [f \in DOMAIN apt_info \cup {"compactness", "shape_descriptors"} |->
        IF f = "compactness" THEN _calculate_compactness(CellsOf(apt_info))
        ELSE IF f = "shape_descriptors"
             THEN _calculate_shape_descriptors(CellsOf(apt_info))
        ELSE apt_info[f]]

\* type_to_code: 1-based rank among the sorted distinct type names
TypeCode(apartments, apt_type) ==
    1 + Cardinality({u \in {apartments[i].type : i \in DOMAIN apartments} :
                        StrLess(u, apt_type)})

\* sig_grid.tobytes(): the int16 codes in row-major order, two bytes each,
\* low byte first
SigBytes(grid_for_sig, w, h, apartments) ==
    LET order == RowMajor(w, h)
        code(c) == LET v == grid_for_sig[c]
                   IN  IF v = -1 THEN -1
                       ELSE IF v = 0 THEN 0
                       ELSE TypeCode(apartments, apartments[v].type)
        word(c) == code(c) % 65536
    IN  [j \in 1..(2 * Len(order)) |->
            IF j % 2 = 1 THEN word(order[(j + 1) \div 2]) % 256
            ELSE word(order[j \div 2]) \div 256]

\* updated_apartments after the scoring loop
ScoredAll(base) == Listed([i \in DOMAIN base |-> Scored(base[i])])

\* np.mean of the compactness values, 0.0 for an empty dict
AvgCompactness(updated_apartments) ==
    IF Len(updated_apartments) > 0
    THEN NumDivInt(NumSum([i \in DOMAIN updated_apartments |->
                            updated_apartments[i].compactness]),
                   Len(updated_apartments))
    ELSE NumInt(0)

\* the shape variance of the apartments of one solution
SolutionVariance(updated_apartments) ==
    _calculate_shape_variance([i \in DOMAIN updated_apartments |->
                                updated_apartments[i].shape_descriptors])

\* score = -avg_compactness + shape_variance * shape_variance_weight
Metadata(avg_compactness, shape_variance) ==
    [n_cells_x |-> cfg.n_cells_x,
     n_cells_y |-> cfg.n_cells_y,
     score |-> NumAdd(NumNeg(avg_compactness),
                      NumMul(shape_variance,
                             NumInt(cfg.shape_variance_weight))),
     avg_compactness |-> avg_compactness,
     shape_variance |-> shape_variance,
     use_fine_grid |-> cfg.use_fine_grid]

\* the solution dict; half is the result of _add_half_cells
SolutionRecord(grid, half, updated_apartments, metadata) ==
    IF cfg.use_fine_grid
    THEN [grid |-> grid, fine_grid |-> half[1][1],
          apartments |-> updated_apartments,
          circulation_cells |-> cfg.circulation_cells,
          metadata |-> metadata]
    ELSE [grid |-> grid,
          apartments |-> updated_apartments,
          circulation_cells |-> cfg.circulation_cells,
          metadata |-> metadata]

\* sig_grid.tobytes() of the grid the signature is taken from
Signature(grid, half, updated_apartments) ==
    IF cfg.use_fine_grid
    THEN SigBytes(half[1][1], cfg.n_cells_x * 2, cfg.n_cells_y * 2,
                  updated_apartments)
    ELSE SigBytes(grid, cfg.n_cells_x, cfg.n_cells_y, updated_apartments)

\* the part of _save_solution after the half-cell resolution succeeded
SaveScored(grid, half, apartments, updated_apartments) ==
    [abandoned |-> FALSE,
     apartments |-> IF cfg.use_fine_grid THEN apartments
                    ELSE updated_apartments,
     solution |-> SolutionRecord(grid, half, updated_apartments,
                    Metadata(AvgCompactness(updated_apartments),
                             SolutionVariance(updated_apartments))),
     sig |-> Signature(grid, half, updated_apartments)]

\* a recorder that records a placement whose half cells found no place
SaveUnresolved(grid, half, apartments) ==
    SaveScored(grid,
               IF half = None THEN Some(<<InitialFineGrid(grid), apartments>>)
               ELSE half,
               apartments,
               ScoredAll(IF cfg.use_fine_grid /\ half # None THEN half[1][2]
                         ELSE apartments))

\* the part of _save_solution after the call of _add_half_cells
SaveResolved(grid, half, apartments) ==
    IF cfg.use_fine_grid /\ half = None
    THEN [abandoned |-> TRUE, apartments |-> apartments]
    ELSE SaveScored(grid, half, apartments,
                    ScoredAll(IF cfg.use_fine_grid THEN half[1][2]
                              ELSE apartments))

\* What _save_solution(grid, apartments) does:
\*   abandoned: half-cell resolution failed, nothing else happens;
\*   apartments: the records of the caller's dict after the call (without the
\*     fine grid the per-apartment scores are written into them);
\*   solution, sig: the record built and its signature.
_save_solution(grid, apartments) ==
    SaveResolved(grid, _add_half_cells(grid, apartments), apartments)

(***************************************************************************)
(* __init__                                                                *)
(***************************************************************************)
TypesOf(apartment_list) == {apartment_list[i][1] : i \in DOMAIN apartment_list}

\* a constructor that marks no cell as partially blocked
NothingBlocked(circulation_cells, fine_circulation_cells) == {}

\* the fine circulation sub-cells' cells that are not circulation cells
PartiallyBlocked(circulation_cells, fine_circulation_cells) ==
    {<<f[1] \div 2, f[2] \div 2>> : f \in fine_circulation_cells}
        \ circulation_cells

\* "if min_facade_cells:" - a dict was given and it is not empty
OverrideGiven(min_facade_cells) ==
    min_facade_cells # None /\ DOMAIN min_facade_cells[1] # {}

\* min_facade_cells.get(apt_type, 0)
OverrideFacade(min_facade_cells, apt_type) ==
    IF apt_type \in DOMAIN min_facade_cells[1]
    THEN min_facade_cells[1][apt_type]
    ELSE 0

FacadeRequirements(apartment_list, min_facade_cells) ==
    [apt_type \in TypesOf(apartment_list) |->
        IF OverrideGiven(min_facade_cells)
        THEN OverrideFacade(min_facade_cells, apt_type)
        ELSE DefaultFacade(apt_type)]

\* the default rule raises ValueError on a type name without a numeric prefix
ConstructionFails(apartment_list, min_facade_cells) ==
    /\ ~OverrideGiven(min_facade_cells)
    /\ \E apt_type \in TypesOf(apartment_list) : ~RoomCount(apt_type).ok

Construct ==
    /\ pc = "new"
    /\ IF ConstructionFails(cfg.apartment_list, cfg.min_facade_cells)
       THEN /\ pc' = "error"
            /\ UNCHANGED <<facade_requirements, partially_blocked_cells>>
       ELSE /\ pc' = "ready"
            /\ partially_blocked_cells' =
                  PartiallyBlocked(cfg.circulation_cells,
                                   cfg.fine_circulation_cells)
            /\ facade_requirements' =
                  FacadeRequirements(cfg.apartment_list, cfg.min_facade_cells)
    /\ UNCHANGED combos_vars
    /\ UNCHANGED <<cfg, solutions, seen_signatures, stack, placed, result>>

(***************************************************************************)
(* solve() and _backtrack().  A frame of stack is one active _backtrack    *)
(* call: its grid, its apt_idx, and, once the candidates are computed      *)
(* (phase "loop"), the candidates still to try.  The placed_apts of the    *)
(* call with apt_idx = i are the first i records of placed: the dict of a  *)
(* call is a shallow copy of its caller's, so the records are shared.      *)
(***************************************************************************)
SolutionCapFactor == 200

\* an order that is the order of the input
InputOrder(apartment_list) == apartment_list

\* sorted(enumerate(apt_list), key=lambda t: -t[1][1]), the specs only
AptListOrdered(apartment_list) ==
    StableSort(apartment_list,
               [i \in DOMAIN apartment_list |-> NumInt(-apartment_list[i][2])])

InitialGrid ==
    [c \in (0..(cfg.n_cells_x - 1)) \X (0..(cfg.n_cells_y - 1)) |->
        IF c \in cfg.circulation_cells THEN -1 ELSE 0]

Frame(grid, apt_idx, phase, todo) ==
    [grid |-> grid, apt_idx |-> apt_idx, phase |-> phase, todo |-> todo]

Top == stack[Len(stack)]

\* a return that starts the search again
Restart ==
    /\ stack' = <<[grid |-> stack[1].grid, apt_idx |-> 0, phase |-> "call",
                   todo |-> <<>>]>>
    /\ placed' = <<>>

\* the call returns to its caller
Pop ==
    /\ stack' = SubSeq(stack, 1, Len(stack) - 1)
    /\ placed' = IF Len(stack) = 1 THEN <<>>
                 ELSE SubSeq(placed, 1, stack[Len(stack) - 1].apt_idx)

\* an exception leaves solve()
Raise ==
    /\ pc' = "error"
    /\ stack' = <<>>
    /\ placed' = <<>>

SolveStart ==
    /\ pc = "ready"
    /\ pc' = "search"
    /\ stack' = <<Frame(InitialGrid, 0, "call", <<>>)>>
    /\ UNCHANGED combos_vars
    /\ UNCHANGED <<cfg, facade_requirements, partially_blocked_cells,
                   solutions, seen_signatures, placed, result>>

NApts == Len(cfg.apartment_list)

\* a recorder without the test of the signature
NeverSeen(sig) == FALSE

\* "if sig in self._seen_signatures: return"
AlreadySeen(sig) == sig \in seen_signatures

\* _backtrack with apt_idx >= len(remaining_apts): _save_solution, return
SaveLeaf ==
    /\ pc = "search" /\ stack # <<>>
    /\ Top.phase = "call"
    /\ Top.apt_idx >= NApts
    /\ \E r \in {_save_solution(Top.grid, placed)} :
           /\ IF r.abandoned \/ AlreadySeen(r.sig)
              THEN UNCHANGED <<solutions, seen_signatures>>
              ELSE /\ seen_signatures' = seen_signatures \cup {r.sig}
                   /\ solutions' = Append(solutions, r.solution)
           /\ stack' = SubSeq(stack, 1, Len(stack) - 1)
           /\ placed' = IF Len(stack) = 1 THEN <<>>
                        ELSE SubSeq(r.apartments, 1,
                                    stack[Len(stack) - 1].apt_idx)
    /\ UNCHANGED combos_vars
    /\ UNCHANGED <<cfg, pc, facade_requirements, partially_blocked_cells,
                   result>>

CapReached == Len(solutions) >= cfg.max_solutions * SolutionCapFactor

\* _backtrack returning at "limiter le nombre de solutions candidates"
CapReturn ==
    /\ pc = "search" /\ stack # <<>>
    /\ Top.phase = "call"
    /\ Top.apt_idx < NApts
    /\ CapReached
    /\ Pop
    /\ UNCHANGED combos_vars
    /\ UNCHANGED <<cfg, pc, facade_requirements, partially_blocked_cells,
                   solutions, seen_signatures, result>>

\* the regions in the order the region finder returned them in
FinderOrder(placements) == placements

\* placements sorted by descending compactness
ByCompactness(placements) ==
    StableSort(placements,
               [i \in DOMAIN placements |->
                    NumNeg(_calculate_compactness(placements[i]))])

\* a cap that cuts nothing: as many tries as the grid has cells
UncappedTries(size2) == cfg.n_cells_x * cfg.n_cells_y

\* int(max_placement_tries * 1.5) for a size with a half cell
MaxTries(size2) ==
    IF IsHalf(size2) THEN (cfg.max_placement_tries * 3) \div 2
    ELSE cfg.max_placement_tries

Prefix(s, n) == SubSeq(s, 1, Min2(Len(s), n))

\* _backtrack up to its loop: the candidates are found, sorted, filtered
\* and capped
Enumerate ==
    /\ pc = "search" /\ stack # <<>>
    /\ Top.phase = "call"
    /\ Top.apt_idx < NApts
    /\ ~CapReached
    /\ \E size2 \in {AptListOrdered(cfg.apartment_list)[Top.apt_idx + 1][2]} :
       \E found \in {ByCompactness(_find_all_placements(Top.grid, size2))} :
       \E f \in {IF placed # <<>>
                 THEN _filter_similar_shapes_strict(found, placed)
                 ELSE [err |-> FALSE, list |-> found]} :
           IF f.err
           THEN Raise
           ELSE IF placed # <<>> /\ f.list = <<>>
           THEN Pop /\ pc' = pc
           ELSE /\ stack' = [stack EXCEPT ![Len(stack)] =
                    Frame(Top.grid, Top.apt_idx, "loop",
                          Prefix(f.list, MaxTries(size2)))]
                /\ UNCHANGED <<pc, placed>>
    /\ UNCHANGED combos_vars
    /\ UNCHANGED <<cfg, facade_requirements, partially_blocked_cells,
                   solutions, seen_signatures, result>>

\* a stamping that writes new_grid[x, y] where the code writes new_grid[y, x]
StampTransposed(grid, placement_cells, apt_id) ==
    [c \in DOMAIN grid |->
        IF <<c[2], c[1]>> \in Range(placement_cells) THEN apt_id ELSE grid[c]]

\* "new_grid = grid.copy(); for x, y in placement_cells: new_grid[y, x] = apt_id"
StampPlacement(grid, placement_cells, apt_id) ==
    [c \in DOMAIN grid |->
        IF c \in Range(placement_cells) THEN apt_id ELSE grid[c]]

\* one iteration of the loop of _backtrack, up to the recursive call
TryPlacement ==
    /\ pc = "search" /\ stack # <<>>
    /\ Top.phase = "loop"
    /\ Top.todo # <<>>
    /\ \E spec \in {AptListOrdered(cfg.apartment_list)[Top.apt_idx + 1]} :
       \E verdict \in {_check_constraints(Head(Top.todo), spec[1])} :
       \E half_side \in {IF IsHalf(spec[2])
                         THEN _select_half_side_any_boundary(Head(Top.todo))
                         ELSE None} :
       \E next \in {[stack EXCEPT ![Len(stack)].todo = Tail(Top.todo)]} :
       LET apt_type == spec[1]
           size2 == spec[2]
           apt_id == Top.apt_idx + 1
           placement_cells == Head(Top.todo)
           new_grid == StampPlacement(Top.grid, placement_cells, apt_id)
       IN  IF verdict = "ValueError"
           THEN Raise
           ELSE IF verdict = "False" \/ (IsHalf(size2) /\ half_side = None)
           THEN /\ stack' = next
                /\ UNCHANGED <<pc, placed>>
           ELSE /\ stack' = Append(next, Frame(new_grid, apt_id, "call", <<>>))
                /\ placed' = Append(placed,
                     [type |-> apt_type,
                      size |-> size2,
                      cells |-> placement_cells,
                      facade_count |-> _count_facade_cells(placement_cells),
                      uses_half_cell |-> IsHalf(size2),
                      half_side |-> half_side,
                      shape_descriptors |->
                          _calculate_shape_descriptors(placement_cells)])
                /\ pc' = pc
    /\ UNCHANGED combos_vars
    /\ UNCHANGED <<cfg, facade_requirements, partially_blocked_cells,
                   solutions, seen_signatures, result>>

\* the loop of _backtrack is over: the call returns
LoopReturn ==
    /\ pc = "search" /\ stack # <<>>
    /\ Top.phase = "loop"
    /\ Top.todo = <<>>
    /\ Pop
    /\ UNCHANGED combos_vars
    /\ UNCHANGED <<cfg, pc, facade_requirements, partially_blocked_cells,
                   solutions, seen_signatures, result>>

(***************************************************************************)
(* solve() after the search: sort, post-filter, truncate.                  *)
(***************************************************************************)
\* a ranking that leaves the solutions in the order they were recorded in
RecordingOrder(sols) == sols

\* self.solutions.sort(key=lambda s: s['metadata']['score'])
SortedByScore(sols) ==
    StableSort(sols, [i \in DOMAIN sols |-> sols[i].metadata.score])

\* a post-filter that drops nothing
NoPostFilter(sols) == sols

\* filtered_solutions, for the sorted list sols
PostFilter(sols) ==
    IF Len(sols) > cfg.max_solutions
    THEN LET n_best == Max2(3, Len(sols) \div 5)
             best == Prefix(sols, n_best)
             avg_best_variance ==
                 NumDivInt(NumSum([i \in DOMAIN best |->
                                best[i].metadata.shape_variance]), Len(best))
             variance_threshold ==
                 NumMul(avg_best_variance,
                        Rat(cfg.variance_filter_threshold[1],
                            cfg.variance_filter_threshold[2]))
             filtered_solutions ==
                 SelectIdx(sols, {i \in DOMAIN sols :
                     NumLeq(sols[i].metadata.shape_variance,
                            variance_threshold)}, 1)
         IN  IF Len(filtered_solutions) < 3
             THEN Prefix(sols, Min2(3, Len(sols)))
             ELSE filtered_solutions
    ELSE sols

Rank ==
    /\ pc = "search" /\ stack = <<>>
    /\ solutions' = SortedByScore(solutions)
    /\ result' = Prefix(PostFilter(solutions'), cfg.max_solutions)
    /\ pc' = "done"
    /\ UNCHANGED combos_vars
    /\ UNCHANGED <<cfg, facade_requirements, partially_blocked_cells,
                   seen_signatures, stack, placed>>

(***************************************************************************)
(* The configurations checked.                                             *)
(***************************************************************************)
Config(w, h, circ, fine_circ, apts, fine, mfc, enf, weight, max_sol, tries) ==
    [n_cells_x |-> w, n_cells_y |-> h,
     circulation_cells |-> circ,
     fine_circulation_cells |-> fine_circ,
     apartment_list |-> apts,
     use_fine_grid |-> fine,
     min_facade_cells |-> mfc,
     max_enfilade_cells_per_apartment |-> enf,
     shape_variance_weight |-> weight,
     variance_filter_threshold |-> <<3, 2>>,
     max_solutions |-> max_sol,
     max_placement_tries |-> tries]

\* type names
T1p == <<"1", "p">>
T2p == <<"2", "p">>
T25p == <<"2", ".", "5", "p">>
T35p == <<"3", ".", "5", "p">>
T3p == <<"3", "p">>
TT1 == <<"T", "1">>

\* the most circulation cells of a configuration of the general family
MaxCirc == 2

CellsOfGrid(w, h) == (0..(w - 1)) \X (0..(h - 1))

\* apartment lists of the general family: <<type, size in half cells>>
GeneralLists ==
    { <<>>,
      << <<T2p, 4>> >>,
      << <<T2p, 4>>, <<T2p, 4>> >>,
      << <<T25p, 5>> >>,
      << <<T1p, 2>>, <<T2p, 6>> >>,
      << <<T25p, 5>>, <<T2p, 4>> >> }

GeneralGrids == {<<3, 2>>, <<3, 3>>}

\* default weight 100, at most 2 solutions returned, 3 tries per call
GeneralConfigs ==
    {Config(g[1], g[2], circ, {}, apts, fine, None, None, 100, 2, 3) :
        g \in GeneralGrids,
        circ \in {c \in SUBSET CellsOfGrid(3, 3) : Cardinality(c) <= MaxCirc},
        apts \in GeneralLists,
        fine \in BOOLEAN}

\* Scenario A: a 5 x 3 grid without circulation and one apartment of 3 cells
ScenarioA ==
    {Config(5, 3, {}, {}, << <<t, 6>> >>, fine, mfc, None, 100, 2, 30) :
        t \in {TT1, T3p, T2p},
        mfc \in {None, Some([k \in {TT1, T3p, T2p} |-> 0])},
        fine \in BOOLEAN}

\* Scenario B: apartments of 4 cells, the circulation cuts the free cells
\* into components of 3 cells
ScenarioB ==
    {Config(3, 3, {<<1, 0>>, <<1, 1>>, <<1, 2>>}, {}, apts, fine, None, None,
            100, 2, 30) :
        apts \in { << <<T2p, 8>> >>, << <<T1p, 2>>, <<T2p, 8>> >> },
        fine \in BOOLEAN}

\* Scenario C: one apartment of 3.5 cells on a 4 x 4 grid
ScenarioC ==
    {Config(4, 4, circ, {}, << <<T35p, 7>> >>, fine, None, None, 100, 2, 4) :
        circ \in {{<<0, 0>>}, {<<1, 1>>}, {<<0, 0>>, <<0, 1>>, <<0, 2>>, <<0, 3>>}},
        fine \in BOOLEAN}

\* other settings of the arguments, on a 3 x 3 grid with circulation in the
\* middle: a fine circulation mask, a facade override, an enfilade limit
\* (also with circulation in a corner), two types of equal or ascending
\* sizes, weights, caps
OtherConfigs ==
    LET mid == {<<1, 1>>}
        two == << <<T2p, 4>>, <<T2p, 4>> >>
        mix == << <<T25p, 5>>, <<T2p, 4>> >>
    IN  {Config(3, 3, mid, fc, mix, TRUE, None, None, 100, 2, 3) :
            fc \in {{<<0, 0>>}, {<<2, 2>>}, {<<2, 1>>, <<3, 1>>},
                    {<<5, 4>>, <<5, 5>>}}}
        \cup
        {Config(3, 3, mid, {}, apts, fine, Some(m), None, 100, 2, 3) :
            apts \in {two, mix, << <<TT1, 4>> >>},
            m \in {[k \in {T2p} |-> 2], [k \in {TT1} |-> 1], <<>>},
            fine \in BOOLEAN}
        \cup
        {Config(3, 3, circ, {}, << <<T2p, 6>>, <<T2p, 6>> >>, FALSE, None, enf,
                100, 2, 4) :
            circ \in {mid, {<<0, 0>>}},
            enf \in {None, Some(0), Some(1)}}
        \cup
        {Config(3, 3, mid, {}, apts, fine, None, None, 100, 2, 3) :
            apts \in { << <<T2p, 4>>, <<T1p, 4>> >>,
                       << <<T1p, 4>>, <<T2p, 4>> >>,
                       << <<T1p, 4>>, <<T25p, 5>> >> },
            fine \in BOOLEAN}
        \cup
        {Config(3, 3, mid, {}, two, fine, None, None, weight, max_sol, tries) :
            fine \in BOOLEAN,
            weight \in {0, 50, 1000},
            max_sol \in {0, 1},
            tries \in {1, 8}}

\* enough regions to reach the budget of recorded solutions: two apartments
\* of one cell on a 3 x 11 grid whose middle column is circulation, at most
\* 1 solution returned (a budget of 200)
BudgetConfigs ==
    {Config(3, 11, {<<1, y>> : y \in 0..10}, {},
            << <<T1p, 2>>, <<T1p, 2>> >>, FALSE, None, None, 100, 1, 30)}

\* arguments without a meaning: a grid without cells, sizes of 0, -1 and
\* -0.5 cells
DegenerateConfigs ==
    {Config(g[1], g[2], {}, {}, << <<T2p, 4>> >>, fine, None, None, 100, 2, 3) :
        g \in {<<0, 3>>, <<3, 0>>}, fine \in BOOLEAN}
    \cup
    {Config(3, 3, {<<1, 1>>}, {}, apts, fine, None, None, 100, 2, 3) :
        apts \in { << <<T2p, 0>> >>, << <<T2p, -2>> >>, << <<T2p, -1>> >>,
                   << <<T2p, 4>>, <<T1p, 0>> >> },
        fine \in BOOLEAN}

\* at most 1 or 3 solutions returned, so that the recorded solutions are
\* fewer than 3, or more than are returned
RankingConfigs ==
    {Config(3, 3, circ, {}, apts, fine, None, None, 100, max_sol, 3) :
        circ \in {{<<0, 0>>}, {<<1, 1>>}},
        apts \in { << <<T2p, 4>> >>, << <<T25p, 5>>, <<T2p, 4>> >> },
        fine \in BOOLEAN,
        max_sol \in {1, 3}}

\* two apartments of 4 cells on a 4 x 3 grid, weight 50: regions of
\* different compactness, and regions at different distances within the
\* threshold
OrderingConfigs ==
    {Config(4, 3, {<<0, 0>>}, {}, << <<T2p, 8>>, <<T2p, 8>> >>, fine, None,
            None, 50, 2, 4) : fine \in BOOLEAN}

\* two apartments of 6 cells on a 5 x 3 grid, weight 1, at most 1 solution
\* returned: the solution of the lowest score is not the one of the lowest
\* shape variance
RetentionConfigs ==
    {Config(5, 3, {<<1, 1>>}, {}, << <<T2p, 12>>, <<T2p, 12>> >>, FALSE, None,
            None, 1, 1, 30)}

Configs ==
    {c \in GeneralConfigs :
        c.circulation_cells \subseteq CellsOfGrid(c.n_cells_x, c.n_cells_y)}
    \cup ScenarioA \cup ScenarioB \cup ScenarioC \cup OtherConfigs
    \cup BudgetConfigs \cup DegenerateConfigs \cup RankingConfigs
    \cup OrderingConfigs \cup RetentionConfigs

Init ==
    /\ cfg \in Configs
    /\ pc = "new"
    /\ facade_requirements = <<>>
    /\ partially_blocked_cells = {}
    /\ solutions = <<>>
    /\ seen_signatures = {}
    /\ stack = <<>>
    /\ placed = <<>>
    /\ result = <<>>
    /\ _combos_cache = <<>>
    /\ combos = None
    /\ n_calls = 0

Next ==
    \/ Construct
    \/ SolveStart
    \/ SaveLeaf
    \/ CapReturn
    \/ Enumerate
    \/ TryPlacement
    \/ LoopReturn
    \/ Rank

Spec == Init /\ [][Next]_vars

(***************************************************************************)
(* The subset-sum enumerator: all_sum_combinations and its module-level    *)
(* cache (src/grid_mix_solver/src/core/combinations.py).  Values, targets  *)
(* and quanta are multiples of 0.5 and are kept in half units, like the    *)
(* sizes (v2 = 2 * v); values is the set of the list's elements.           *)
(***************************************************************************)
\* scale = round(1.0 / quantum)
ScaleOf(quantum2) == RoundHalfEven(2, quantum2)

\* int(round(v * scale))
ScaledInt(v2, scale) == RoundHalfEven(v2 * scale, 2)

\* sorted(S) for a set of integers
RECURSIVE SortedSet(_)
SortedSet(S) ==
    IF S = {} THEN <<>>
    ELSE <<SetMin(S)>> \o SortedSet(S \ {SetMin(S)})

\* reduce(math.gcd, vals_int)
RECURSIVE GcdAll(_)
GcdAll(vals_int) ==
    IF Len(vals_int) = 1 THEN vals_int[1]
    ELSE Gcd(GcdAll(SubSeq(vals_int, 1, Len(vals_int) - 1)),
             vals_int[Len(vals_int)])

\* dfs(start_idx, remaining), and its loop from the index i on (1-based)
RECURSIVE dfs(_, _, _)
RECURSIVE DfsLoop(_, _, _)
dfs(vals_norm, start_idx, remaining) ==
    IF remaining = 0 THEN << <<>> >>
    ELSE DfsLoop(vals_norm, start_idx, remaining)

DfsLoop(vals_norm, i, remaining) ==
    IF i > Len(vals_norm) THEN <<>>
    ELSE IF vals_norm[i] > remaining THEN <<>>
    ELSE LET tails == dfs(vals_norm, i, remaining - vals_norm[i])
         IN  [t \in DOMAIN tails |-> <<vals_norm[i]>> \o tails[t]]
                \o DfsLoop(vals_norm, i + 1, remaining)

\* tuple comparison a < b
RECURSIVE TupleLess(_, _)
TupleLess(a, b) ==
    IF b = <<>> THEN FALSE
    ELSE IF a = <<>> THEN TRUE
    ELSE IF a[1] # b[1] THEN a[1] < b[1]
    ELSE TupleLess(Tail(a), Tail(b))

\* the key (len(x), x) of a is less than that of b
ComboLess(a, b) ==
    Len(a) < Len(b) \/ (Len(a) = Len(b) /\ TupleLess(a, b))

\* sorted(sols_float, key=lambda x: (len(x), x)): each element is inserted
\* after the elements whose key is not larger
RECURSIVE SortedCombos(_)
SortedCombos(sols) ==
    IF sols = <<>> THEN <<>>
    ELSE LET before == SortedCombos(SubSeq(sols, 1, Len(sols) - 1))
             x == sols[Len(sols)]
         IN  InsertAt(before, x,
                 FirstOf({p \in DOMAIN before : ComboLess(x, before[p])},
                         Len(before) + 1))

\* tuple(v * g for v in combo), then tuple(v / scale for v in combo), the
\* floats in half units
ComboFloat(combo, g, scale) ==
    [k \in DOMAIN combo |-> (2 * combo[k] * g) \div scale]

\* the list computed when the cache has no entry for the key
ComputeCombos(vals_int, target_int, scale) ==
    LET g == GcdAll(vals_int)
    IN  IF target_int % g # 0 THEN <<>>
        ELSE LET combos_norm ==
                    dfs([k \in DOMAIN vals_int |-> vals_int[k] \div g], 1,
                        target_int \div g)
             IN  SortedCombos([k \in DOMAIN combos_norm |->
                                  ComboFloat(combos_norm[k], g, scale)])

\* the cache with the list stored under the key
Cached(cache, key, list) ==
    [k \in DOMAIN cache \cup {key} |-> IF k = key THEN list ELSE cache[k]]

\* the call with the integers computed: [raised |-> ValueError was raised,
\* list |-> the list returned, cache |-> the cache after the call]
CombosOf(cache, vals_int, target_int, scale) ==
    IF vals_int = <<>> \/ vals_int[1] <= 0
    THEN [raised |-> TRUE, list |-> <<>>, cache |-> cache]
    ELSE IF <<vals_int, target_int>> \in DOMAIN cache
    THEN [raised |-> FALSE, list |-> cache[<<vals_int, target_int>>],
          cache |-> cache]
    ELSE [raised |-> FALSE,
          list |-> ComputeCombos(vals_int, target_int, scale),
          cache |-> Cached(cache, <<vals_int, target_int>>,
                           ComputeCombos(vals_int, target_int, scale))]

all_sum_combinations(cache, values, target2, quantum2) ==
    CombosOf(cache,
             SortedSet({ScaledInt(v2, ScaleOf(quantum2)) : v2 \in values}),
             ScaledInt(target2, ScaleOf(quantum2)),
             ScaleOf(quantum2))

\* the most calls of a behaviour
MaxCalls == 2

\* the largest target, in half units
MaxTarget == 6

\* the lists of values: 0.5, 1.0 and 2.0, in half units
ValueSets == (SUBSET {1, 2, 4}) \ {{}}

\* the quanta 0.5 and 1.0, in half units
Quanta == {1, 2}

\* one call of all_sum_combinations
CallCombinations(values, target2, quantum2) ==
    /\ n_calls < MaxCalls
    /\ \E r \in {all_sum_combinations(_combos_cache, values, target2,
                                      quantum2)} :
          /\ _combos_cache' = r.cache
          /\ combos' = Some([values |-> values, target |-> target2,
                             quantum |-> quantum2, raised |-> r.raised,
                             list |-> r.list])
    /\ n_calls' = n_calls + 1
    /\ UNCHANGED <<cfg, pc, facade_requirements, partially_blocked_cells,
                   solutions, seen_signatures, stack, placed, result>>

\* the module is imported: the cache is empty, no call is made yet, and no
\* placement engine is constructed
CombosInit ==
    /\ _combos_cache = <<>>
    /\ combos = None
    /\ n_calls = 0
    /\ cfg = <<>>
    /\ pc = "none"
    /\ facade_requirements = <<>>
    /\ partially_blocked_cells = {}
    /\ solutions = <<>>
    /\ seen_signatures = {}
    /\ stack = <<>>
    /\ placed = <<>>
    /\ result = <<>>

CombosNext ==
    \E values \in ValueSets : \E target2 \in 0..MaxTarget :
    \E quantum2 \in Quanta :
        CallCombinations(values, target2, quantum2)

CombosSpec == CombosInit /\ [][CombosNext]_vars

(***************************************************************************)
(* Properties of the recorded solutions.                                   *)
(***************************************************************************)
Recorded == Range(solutions)

AptsOf(s) == Range(s.apartments)

\* 4-adjacency of two cells, stated on the coordinates
Adjacent(a, b) == Abs(a[1] - b[1]) + Abs(a[2] - b[2]) = 1

\* the four cells 4-adjacent to c
Around(c) ==
    {<<c[1] + 1, c[2]>>, <<c[1] - 1, c[2]>>,
     <<c[1], c[2] + 1>>, <<c[1], c[2] - 1>>}

\* the cells of S joined to a cell of R by a path of adjacent cells of S
RECURSIVE Reach(_, _)
Reach(S, R) ==
    IF (S \cap UNION {Around(r) : r \in R}) \subseteq R THEN R
    ELSE Reach(S, R \cup (S \cap UNION {Around(r) : r \in R}))

Connected(S) == S = {} \/ Reach(S, {CHOOSE c \in S : TRUE}) = S

ApartmentsConnected ==
    \A s \in Recorded : \A a \in AptsOf(s) : Connected(Range(a.cells))

\* an apartment of three cells that are not in one row or column is recorded
BentApartmentRecorded ==
    \E s \in Recorded : \E a \in AptsOf(s) :
        /\ Len(a.cells) = 3
        /\ \E c, d \in Range(a.cells) : c[1] # d[1] /\ c[2] # d[2]

\* C3: in every solution recorded with the fine grid, every apartment has
\* floor(size) coarse cells, and 4 * floor(size) + 2 fine cells if its size
\* has a half cell, 4 * floor(size) fine cells otherwise.
CellCountsMatchSize ==
    \A s \in Recorded :
        s.metadata.use_fine_grid =>
            \A a \in AptsOf(s) :
                /\ Len(a.cells) = a.size \div 2
                /\ Len(a.fine_cells) =
                      4 * (a.size \div 2) + (IF a.size % 2 = 1 THEN 2 ELSE 0)

\* a solution on the fine grid with an apartment with a half cell next to
\* one of an integer size is recorded
HalfCellApartmentRecorded ==
    \E s \in Recorded :
        /\ s.metadata.use_fine_grid
        /\ \E a, b \in AptsOf(s) : a.size % 2 = 1 /\ b.size % 2 = 0

\* C4: in every recorded solution the two extra fine sub-cells of an
\* apartment with a half cell are 4-adjacent to each other and both are
\* 4-adjacent to a sub-cell expanded from the apartment's coarse cells (the
\* pair lies along the boundary, it does not stick out of it).
HalfPairAlongBoundary ==
    \A s \in Recorded :
        s.metadata.use_fine_grid =>
            \A a \in AptsOf(s) :
                a.uses_half_cell =>
                    \E own \in {Range(SubSeq(a.fine_cells, 1,
                                             Len(a.fine_cells) - 2))} :
                        /\ Adjacent(a.fine_cells[Len(a.fine_cells) - 1],
                                    a.fine_cells[Len(a.fine_cells)])
                        /\ \A j \in {Len(a.fine_cells) - 1, Len(a.fine_cells)} :
                              \E c \in own : Adjacent(a.fine_cells[j], c)

\* C5: in every recorded solution every apartment has a coarse cell that is
\* 4-adjacent to a coarse circulation cell; a configuration without
\* circulation cells records no solution that contains an apartment.
ApartmentsTouchCirculation ==
    /\ \A s \in Recorded : \A a \in AptsOf(s) :
          \E c \in Range(a.cells) : \E d \in cfg.circulation_cells :
              Adjacent(c, d)
    /\ cfg.circulation_cells = {} =>
          \A s \in Recorded : s.apartments = <<>>

\* an apartment with a cell at the circulation and a cell that is not
\* adjacent to it is recorded
PartlyTouchingRecorded ==
    \E s \in Recorded : \E a \in AptsOf(s) :
        /\ \E c \in Range(a.cells) : \E d \in cfg.circulation_cells :
              Adjacent(c, d)
        /\ \E c \in Range(a.cells) : \A d \in cfg.circulation_cells :
              ~Adjacent(c, d)

\* C6: in every recorded solution the facade_count of every apartment is the
\* number of its coarse cells on the outer boundary of the grid, and it is
\* at least the facade requirement of the apartment's type.
FacadeCountMeetsRequirement ==
    \A s \in Recorded : \A a \in AptsOf(s) :
        /\ a.facade_count =
              Cardinality({c \in Range(a.cells) :
                  \/ c[1] = 0 \/ c[1] = cfg.n_cells_x - 1
                  \/ c[2] = 0 \/ c[2] = cfg.n_cells_y - 1})
        /\ a.facade_count >= facade_requirements[a.type]

\* an apartment whose type requires two facade cells, with a cell on the
\* far sides of the grid and a cell inside the grid, is recorded
InnerCellRecorded ==
    \E s \in Recorded : \E a \in AptsOf(s) :
        /\ facade_requirements[a.type] >= 2
        /\ \E c \in Range(a.cells) :
              c[1] = cfg.n_cells_x - 1 \/ c[2] = cfg.n_cells_y - 1
        /\ a.facade_count < Len(a.cells)

\* the grid g with every apartment id replaced by the 1-based rank of the
\* apartment's type among the sorted distinct type names of apts
CanonicalGrid(g, apts) ==
    [c \in DOMAIN g |->
        IF g[c] >= 1
        THEN 1 + Cardinality({u \in {apts[k].type : k \in DOMAIN apts} :
                                StrLess(u, apts[g[c]].type)})
        ELSE g[c]]

CanonicalOf(s) ==
    CanonicalGrid(IF s.metadata.use_fine_grid THEN s.fine_grid ELSE s.grid,
                  s.apartments)

\* C7: no two recorded solutions have the same canonical signature (the
\* fine grid if used, else the coarse grid, with type ranks for apartment
\* ids).
SignaturesDistinct ==
    Cardinality({CanonicalOf(solutions[i]) : i \in DOMAIN solutions})
        = Len(solutions)

\* the search has completed a placement whose grid differs from a recorded
\* solution's grid only by the exchange of two apartments of one type
ExchangedPlacementReached ==
    /\ pc = "search" /\ stack # <<>>
    /\ Top.phase = "call" /\ Top.apt_idx >= NApts
    /\ ~cfg.use_fine_grid
    /\ \E s \in Recorded :
          /\ s.grid # Top.grid
          /\ CanonicalOf(s) = CanonicalGrid(Top.grid, placed)

\* Scenario A: a 5 x 3 grid, no circulation, one apartment of 3 cells
IsScenarioA ==
    /\ cfg.n_cells_x = 5 /\ cfg.n_cells_y = 3
    /\ cfg.circulation_cells = {} /\ cfg.fine_circulation_cells = {}
    /\ Len(cfg.apartment_list) = 1
    /\ cfg.apartment_list[1][2] = 6

Constructed == pc \in {"ready", "search", "done"}

\* C9, as stated: in Scenario A exactly one solution is recorded.
ScenarioARecordsOne ==
    (IsScenarioA /\ pc = "done") => Len(solutions) = 1

\* C9, amended: in Scenario A, once the solver is constructed, the region
\* finder finds at least one region of 3 cells on the initial grid, none of
\* them touches circulation, and no solution is ever recorded or returned.
ScenarioARecordsNothing ==
    (IsScenarioA /\ Constructed) =>
        /\ _find_all_placements(InitialGrid, 6) # <<>>
        /\ solutions = <<>>
        /\ result = <<>>

\* solve() has returned in Scenario A
ScenarioASolved == IsScenarioA /\ pc = "done"

\* the free cells that are not partially blocked
FreeCells ==
    CellsOfGrid(cfg.n_cells_x, cfg.n_cells_y)
        \ (cfg.circulation_cells \cup partially_blocked_cells)

\* twice the size of the largest apartment of a non-empty list
LargestSize2 ==
    SetMax({cfg.apartment_list[i][2] : i \in DOMAIN cfg.apartment_list})

\* every 4-connected component of FreeCells has fewer than floor(size)
\* cells, for the largest size
NoRoomForLargest ==
    /\ cfg.apartment_list # <<>>
    /\ \A c \in FreeCells :
          Cardinality(Reach(FreeCells, {c})) < LargestSize2 \div 2

\* C10: if every 4-connected component of the free, not partially blocked
\* cells of the initial grid has fewer than floor(size) cells for the
\* largest apartment, the region finder returns no candidate for it and
\* solve() records and returns no solution.
NoRoomNoSolution ==
    (Constructed /\ NoRoomForLargest) =>
        /\ _find_all_placements(InitialGrid, LargestSize2) = <<>>
        /\ solutions = <<>>
        /\ result = <<>>

\* solve() has returned for an apartment of 4 cells where the circulation
\* leaves components of 3 free cells
CutGridSolved ==
    /\ pc = "done"
    /\ NoRoomForLargest
    /\ LargestSize2 = 8
    /\ \E c \in FreeCells : Cardinality(Reach(FreeCells, {c})) = 3

(***************************************************************************)
(* Properties of the search.                                               *)
(***************************************************************************)
\* the coarse regions of a list of apartment records
RegionsOf(apts) == [i \in DOMAIN apts |-> apts[i].cells]

\* the descriptors desc lie within the distance threshold in force of the
\* mean of the descriptors before (distance and threshold are non-negative
\* and are compared by their squares)
WithinOf(desc, before) ==
    NumLeq(Distance2(desc, AvgDescriptors(before)),
           NumSq(DistanceThreshold(cfg.shape_variance_weight,
                                   _calculate_shape_variance(before))))

\* region k of the list lies within the threshold of regions 1..k-1
Within(regions, k) ==
    WithinOf(_calculate_shape_descriptors(regions[k]),
             [i \in 1..(k - 1) |-> _calculate_shape_descriptors(regions[i])])

\* the search has ended; self.solutions only grows during the search, so it
\* then holds every solution that was recorded
SearchOver == pc \in {"done", "error"}

\* C11: in every partial assignment of the search, and in every recorded
\* solution, the descriptors of the coarse region of each apartment k >= 2
\* lie within the distance threshold in force (tightened when the variance
\* of apartments 1..k-1 is below 0.01) of the mean descriptors of apartments
\* 1..k-1: an apartment whose candidates are all farther is not placed.
SimilarityRespected ==
    /\ \A k \in 2..Len(placed) : Within(RegionsOf(placed), k)
    /\ SearchOver =>
          \A s \in Recorded :
             \A k \in 2..Len(s.apartments) :
                Within(RegionsOf(s.apartments), k)

\* the regions found on grid for the apartment spec that pass the constraints
PassingRegions(grid, spec) ==
    LET found == _find_all_placements(grid, spec[2])
    IN  {found[i] : i \in {j \in DOMAIN found :
                            _check_constraints(found[j], spec[1]) = "True"}}

\* with first placed as apartment 1, the second apartment has regions that
\* pass the constraints, and none of them is within the threshold
SecondPruned(first, second_spec) ==
    LET regions == PassingRegions(StampPlacement(InitialGrid, first, 1),
                                  second_spec)
    IN  /\ regions # {}
        /\ \A r \in regions : ~Within(<<first, r>>, 2)

\* solve() has returned no solution for two apartments: the first has
\* regions that pass the constraints, and after each of them the second has
\* too, but none within the threshold
PrunedToNothing ==
    /\ pc = "done" /\ result = <<>> /\ solutions = <<>>
    /\ NApts = 2 /\ cfg.shape_variance_weight # 0
    /\ LET order == AptListOrdered(cfg.apartment_list)
           firsts == PassingRegions(InitialGrid, order[1])
       IN  /\ firsts # {}
           /\ \A first \in firsts : SecondPruned(first, order[2])

\* C12: the number of recorded solutions never exceeds
\* max_solutions * 200: once the budget is reached no further solution is
\* recorded.
BudgetRespected ==
    Len(solutions) <= cfg.max_solutions * SolutionCapFactor

\* a non-positive grid width or height, an empty apartment list, or an
\* apartment of non-positive size
BadConfig ==
    \/ cfg.n_cells_x <= 0 \/ cfg.n_cells_y <= 0
    \/ cfg.apartment_list = <<>>
    \/ \E i \in DOMAIN cfg.apartment_list : cfg.apartment_list[i][2] <= 0

\* C13: a configuration with a non-positive grid width or height, an empty
\* apartment list or an apartment of non-positive size is rejected by the
\* constructor: solve() never starts the search and no solution is recorded.
BadConfigRejected ==
    BadConfig =>
        /\ pc \in {"new", "error"}
        /\ stack = <<>>
        /\ solutions = <<>>

\* the score of a solution
ScoreOf(s) == s.metadata.score

\* the place of solution s in the list sols (0 when it is not in it)
PlaceIn(sols, s) ==
    IF \E i \in DOMAIN sols : sols[i] = s
    THEN CHOOSE i \in DOMAIN sols : sols[i] = s
    ELSE 0

\* C14: when solve() returns, the list returned is sorted in non-decreasing
\* order of score, two entries of equal score standing in the order they
\* were recorded in; every entry is a recorded solution, no solution is
\* returned twice, and there are at most max_solutions entries.
ReturnedRanked ==
    [][(pc # "done" /\ pc' = "done") =>
          /\ Len(result') <= cfg.max_solutions
          /\ \A i \in DOMAIN result' : PlaceIn(solutions, result'[i]) # 0
          /\ \A i, j \in DOMAIN result' :
                i < j =>
                   /\ result'[i] # result'[j]
                   /\ NumLeq(ScoreOf(result'[i]), ScoreOf(result'[j]))
                   /\ NumEq(ScoreOf(result'[i]), ScoreOf(result'[j]))
                         => PlaceIn(solutions, result'[i])
                               < PlaceIn(solutions, result'[j])]_vars

\* solve() has returned fewer solutions than were recorded, among them two
\* of equal score and two of different scores
RankedWithTies ==
    /\ pc = "done"
    /\ Len(result) < Len(solutions)
    /\ \E i, j \in DOMAIN result :
          i < j /\ NumEq(ScoreOf(result[i]), ScoreOf(result[j]))
    /\ \E i, j \in DOMAIN result :
          i < j /\ NumLess(ScoreOf(result[i]), ScoreOf(result[j]))

\* the mean shape variance of the first n solutions of the list
MeanVariance(sols, n) ==
    NumDivInt(NumSum([i \in 1..n |-> sols[i].metadata.shape_variance]), n)

\* the variance ceiling of the post-filter for the sorted list sols
Ceiling(sols) ==
    NumMul(MeanVariance(sols, Min2(Len(sols), Max2(3, Len(sols) \div 5))),
           Rat(cfg.variance_filter_threshold[1],
               cfg.variance_filter_threshold[2]))

\* the places of the solutions of sols whose variance is at most ceiling
Under(sols, ceiling) ==
    {i \in DOMAIN sols : NumLeq(sols[i].metadata.shape_variance, ceiling)}

\* at is the list of the places, in the sorted list sols, of what the
\* post-filter leaves of it, in the order of sols: every place when sols has
\* at most max_solutions entries; else the places of the solutions whose
\* variance is at most the ceiling, or of the 3 best (of all, when there are
\* fewer than 3) when fewer than 3 are under the ceiling
SurvivorsAt(sols, at) ==
    /\ \A i \in DOMAIN at : at[i] # 0
    /\ \A i \in 1..(Len(at) - 1) : at[i] < at[i + 1]
    /\ Len(sols) <= cfg.max_solutions => Range(at) = DOMAIN sols
    /\ Len(sols) > cfg.max_solutions =>
          Range(at) =
             IF Cardinality(Under(sols, Ceiling(sols))) >= 3
             THEN Under(sols, Ceiling(sols))
             ELSE 1..Min2(3, Len(sols))

Survivors(sols, kept) ==
    SurvivorsAt(sols, [i \in DOMAIN kept |-> PlaceIn(sols, kept[i])])

\* solve() returns
Returning == pc # "done" /\ pc' = "done"

\* the list returned is the first max_solutions survivors of the post-filter,
\* and at least least of them survive when more than max_solutions solutions
\* are recorded
Filtered(sols, kept, returned, least) ==
    /\ Survivors(sols, kept)
    /\ returned = Prefix(kept, cfg.max_solutions)
    /\ Len(sols) > cfg.max_solutions => Len(kept) >= least

\* C15 as stated: the post-filter drops nothing when there are at most
\* max_solutions recorded solutions; else exactly the solutions under the
\* ceiling survive, or the 3 best when fewer than 3 are under it, so that at
\* least 3 solutions survive before the truncation.
PostFilterKeepsThree ==
    [][Returning =>
          Filtered(solutions', PostFilter(solutions'), result', 3)]_vars

\* C15, amended: as above, but the solutions that survive before the
\* truncation are at least 3 or all the recorded ones, whichever is less
\* (the ceiling is the multiplier times the mean variance of the best
\* max(3, count // 5) solutions, of all of them when there are fewer).
PostFilterKeepsThreeOrAll ==
    [][Returning =>
          Filtered(solutions', PostFilter(solutions'), result',
                   Min2(3, Len(solutions')))]_vars

\* solve() has returned after a post-filter that dropped solutions over the
\* ceiling and kept at least 3 under it
FilterDropped ==
    /\ pc = "done"
    /\ Len(solutions) > cfg.max_solutions
    /\ Cardinality(Under(solutions, Ceiling(solutions))) >= 3
    /\ Cardinality(Under(solutions, Ceiling(solutions))) < Len(solutions)
    /\ result # <<>>

\* C16: once the solver is constructed, the required facade-cell count of an
\* apartment type is its entry of the override map when the map has one, and
\* otherwise (no map given, or a map without an entry for the type)
\* max(0, round(roomCount(type) - 1.5)).
FacadeDefaultPerType ==
    Constructed =>
        \A apt_type \in TypesOf(cfg.apartment_list) :
            IF /\ cfg.min_facade_cells # None
               /\ apt_type \in DOMAIN cfg.min_facade_cells[1]
            THEN facade_requirements[apt_type]
                    = cfg.min_facade_cells[1][apt_type]
            ELSE RoomCount(apt_type).ok =>
                    facade_requirements[apt_type] = DefaultFacade(apt_type)

\* the place of the i-th spec of the input in the placement order: after the
\* specs of greater size and the earlier specs of equal size
PlaceOfSpec(i) ==
    1 + Cardinality({j \in DOMAIN cfg.apartment_list :
            \/ cfg.apartment_list[j][2] > cfg.apartment_list[i][2]
            \/ /\ cfg.apartment_list[j][2] = cfg.apartment_list[i][2]
               /\ j < i})

\* the records are those of the first Len(apts) specs of the placement order
FollowsOrder(apts) ==
    \A i \in DOMAIN cfg.apartment_list :
        PlaceOfSpec(i) \in DOMAIN apts =>
            /\ apts[PlaceOfSpec(i)].type = cfg.apartment_list[i][1]
            /\ apts[PlaceOfSpec(i)].size = cfg.apartment_list[i][2]

\* C17: apartments are placed in one order, descending by size with ties in
\* the order of the input: in every partial assignment apartment id k
\* carries the type and size of the k-th spec of that order, and every
\* recorded solution has exactly the ids 1..N, one per spec, duplicates
\* included.
PlacedInSizeOrder ==
    /\ Len(placed) <= NApts
    /\ FollowsOrder(placed)
    /\ \A s \in Recorded :
          /\ DOMAIN s.apartments = 1..NApts
          /\ FollowsOrder(s.apartments)

\* a solution is recorded whose apartment 1 is the second spec of the input,
\* greater than the first and of another type
ReorderedRecorded ==
    \E s \in Recorded :
        /\ NApts = 2
        /\ cfg.apartment_list[1][2] < cfg.apartment_list[2][2]
        /\ cfg.apartment_list[1][1] # cfg.apartment_list[2][1]
        /\ s.apartments[1].type = cfg.apartment_list[2][1]
        /\ s.apartments[2].type = cfg.apartment_list[1][1]

\* A measure of what is left to do.  Radix is more than a call can have
\* candidates; the rank of a call is Radix - 1 before its candidates are
\* computed, then 1 + the number of candidates left; Remaining reads the
\* ranks of the active calls, outermost first, as the digits of a number,
\* below the digit of pc.
Radix == cfg.n_cells_x * cfg.n_cells_y + 3

RECURSIVE Power(_, _)
Power(b, e) == IF e = 0 THEN 1 ELSE b * Power(b, e - 1)

CallRank(d) ==
    IF d > Len(stack) THEN 0
    ELSE IF stack[d].phase = "call" THEN Radix - 1
    ELSE 1 + Len(stack[d].todo)

PcRank ==
    CASE pc = "new" -> 3
      [] pc = "ready" -> 2
      [] pc = "search" -> 1
      [] OTHER -> 0

Remaining ==
    PcRank * Power(Radix, NApts + 1)
    + SumInts([d \in 1..(NApts + 1) |->
                  CallRank(d) * Power(Radix, NApts + 1 - d)])

\* C18: solve() terminates, by returning or by raising: there are never more
\* than N + 1 active calls of _backtrack, no call has more candidates to try
\* than the grid has cells, every step of the program decreases the natural
\* number Remaining, and a search that is exhausted returns (the empty list
\* when nothing was recorded) without raising an error.
SolveTerminates ==
    /\ [](/\ Len(stack) <= NApts + 1
          /\ \A d \in DOMAIN stack :
                /\ stack[d].apt_idx = d - 1
                /\ Len(stack[d].todo) <= cfg.n_cells_x * cfg.n_cells_y
          /\ Remaining >= 0
          /\ pc \in {"new", "ready", "search", "done", "error"}
          /\ \A d \in DOMAIN stack : stack[d].phase \in {"call", "loop"})
    /\ [][Remaining' < Remaining]_vars
    /\ [][(pc = "search" /\ stack = <<>>) =>
             /\ pc' = "done"
             /\ (solutions = <<>>) => (result' = <<>>)]_vars

\* solve() has returned the empty list for two apartments after a search
\* that placed the first and recorded nothing
ExhaustedEmpty ==
    /\ pc = "done" /\ result = <<>> /\ solutions = <<>>
    /\ NApts = 2
    /\ PassingRegions(InitialGrid, AptListOrdered(cfg.apartment_list)[1]) # {}

\* the spec of the apartment that call d of the stack places
SpecOfCall(d) == AptListOrdered(cfg.apartment_list)[d]

\* max_placement_tries, or int(1.5 * max_placement_tries) for a size with a
\* half cell
TriesCap(size2) ==
    IF IsHalf(size2) THEN (3 * cfg.max_placement_tries) \div 2
    ELSE cfg.max_placement_tries

\* the candidates of a call in the order they are tried in: the regions
\* found on grid by descending compactness, filtered by similarity to the
\* apartments before when there are any
CandidatesOf(grid, before, size2) ==
    IF before = <<>>
    THEN ByCompactness(_find_all_placements(grid, size2))
    ELSE _filter_similar_shapes_strict(
             ByCompactness(_find_all_placements(grid, size2)), before).list

\* C19: a call of _backtrack never has more candidates to try than
\* max_placement_tries (int(1.5 * max_placement_tries) for a size with a
\* half cell), and an apartment that is placed is one of the first that
\* many candidates of its call, in the order they are tried in, whether or
\* not these pass the constraints: the cap is applied before the
\* constraints are checked.
TriesCapped ==
    /\ [](\A d \in DOMAIN stack :
             stack[d].phase = "loop" =>
                Len(stack[d].todo) <= TriesCap(SpecOfCall(d)[2]))
    /\ [][Len(placed') > Len(placed) =>
             placed'[Len(placed')].cells \in
                Range(Prefix(CandidatesOf(Top.grid, placed,
                                          SpecOfCall(Len(stack))[2]),
                             TriesCap(SpecOfCall(Len(stack))[2])))]_vars

\* the call on top of the stack has its full number of candidates to try,
\* none of them passes the constraints, and a candidate beyond the cap does
CapHidesPassing ==
    /\ pc = "search" /\ stack # <<>>
    /\ Top.phase = "loop"
    /\ Len(Top.todo) = TriesCap(SpecOfCall(Len(stack))[2])
    /\ \A i \in DOMAIN Top.todo :
          _check_constraints(Top.todo[i], SpecOfCall(Len(stack))[1]) = "False"
    /\ \E r \in PassingRegions(Top.grid, SpecOfCall(Len(stack))) :
          /\ r \notin Range(Top.todo)
          /\ r \in Range(CandidatesOf(Top.grid, placed,
                                      SpecOfCall(Len(stack))[2]))

\* the place of a start cell in the order of the region finder: cells next
\* to the circulation first, then cells of the perimeter, then the order of
\* the scan, row by row
StartOrder(c) ==
    ((IF \E d \in cfg.circulation_cells : Adjacent(c, d) THEN 0 ELSE 2)
        + (IF OnFacade(c) THEN 0 ELSE 1)) * (cfg.n_cells_x * cfg.n_cells_y)
    + c[2] * cfg.n_cells_x + c[1]

\* a region found by the region finder starts with its start cell; first
\* and second are in the order of a first apartment's candidates
FirstOrder(first, second) ==
    \/ NumLess(_calculate_compactness(second), _calculate_compactness(first))
    \/ /\ NumEq(_calculate_compactness(second), _calculate_compactness(first))
       /\ StartOrder(first[1]) < StartOrder(second[1])

\* the squared distance of a region to the mean descriptors of the regions
\* before
DistanceTo(before, r) ==
    Distance2(_calculate_shape_descriptors(r),
              AvgDescriptors([i \in DOMAIN before |->
                  _calculate_shape_descriptors(before[i].cells)]))

\* first and second are in the order of a later apartment's candidates
LaterOrder(dist, first, second) ==
    \/ NumLess(dist[first], dist[second])
    \/ /\ NumEq(dist[first], dist[second])
       /\ ~NumLess(_calculate_compactness(first),
                   _calculate_compactness(second))

\* the candidates todo of a call with the apartments before placed are in
\* the order they are to be tried in
InTryOrder(before, todo) ==
    IF before = <<>>
    THEN \A i \in 1..(Len(todo) - 1) : FirstOrder(todo[i], todo[i + 1])
    ELSE LET dist == [r \in Range(todo) |-> DistanceTo(before, r)]
         IN  \A i \in 1..(Len(todo) - 1) :
                LaterOrder(dist, todo[i], todo[i + 1])

\* the call on top of the stack computes its candidates
Enumerating ==
    /\ pc = "search" /\ stack # <<>> /\ Top.phase = "call"
    /\ Len(stack') = Len(stack)
    /\ stack'[Len(stack)].phase = "loop"

\* C20: the candidates of a call are tried in the order of its list, first
\* to last; for the first apartment the list is in descending compactness,
\* ties in the order of the region finder, and holds every region found up
\* to the cap; for a later apartment it is in ascending similarity distance,
\* ties in descending compactness.
TriedInOrder ==
    /\ [][Enumerating =>
             /\ InTryOrder(placed, stack'[Len(stack)].todo)
             /\ placed = <<>> =>
                   Len(stack'[Len(stack)].todo) =
                      Min2(TriesCap(SpecOfCall(1)[2]),
                           Len(_find_all_placements(Top.grid,
                                                    SpecOfCall(1)[2])))]_vars
    /\ [][\A d \in DOMAIN stack \cap DOMAIN stack' :
             stack[d].phase = "loop" =>
                \/ stack'[d].todo = stack[d].todo
                \/ /\ d = Len(stack)
                   /\ stack'[d].todo = Tail(stack[d].todo)
                   /\ Len(placed') > Len(placed) =>
                         placed'[Len(placed')].cells = Head(stack[d].todo)]_vars

\* the call for the second apartment has candidates at equal and at
\* different distances to try, and the call for the first apartment has
\* candidates left that are no more compact than the one it placed
OrderedCandidates ==
    /\ pc = "search" /\ Len(stack) = 2 /\ Top.phase = "loop"
    /\ LET dist == [r \in Range(Top.todo) |-> DistanceTo(placed, r)]
       IN  /\ \E i \in 1..(Len(Top.todo) - 1) :
                 NumLess(dist[Top.todo[i]], dist[Top.todo[i + 1]])
           /\ \E i \in 1..(Len(Top.todo) - 1) :
                 NumEq(dist[Top.todo[i]], dist[Top.todo[i + 1]])
    /\ stack[1].todo # <<>>
    /\ \A i \in DOMAIN stack[1].todo :
          NumLeq(_calculate_compactness(stack[1].todo[i]),
                 _calculate_compactness(placed[1].cells))

\* C21: whenever the filter is applied to the candidates of a later
\* apartment (weight > 0), the threshold it uses when the variance of the
\* placed apartments is below 0.01 is less than or equal to the threshold
\* it uses otherwise.
TightenedNeverLooser ==
    (pc = "search" /\ placed # <<>> /\ cfg.shape_variance_weight > 0) =>
        NumLeq(DistanceThreshold(cfg.shape_variance_weight, NumInt(0)),
               DistanceThreshold(cfg.shape_variance_weight, NumInt(1)))

\* the call on top of the stack is at a complete placement
AtLeaf ==
    pc = "search" /\ stack # <<>> /\ Top.phase = "call" /\ Top.apt_idx >= NApts

\* the half-cell resolution of the complete placement on top fails
ResolutionFails ==
    AtLeaf /\ cfg.use_fine_grid /\ _add_half_cells(Top.grid, placed) = None

\* the complete placement that the candidate r of the call d gives
LeafOf(d, r) ==
    [grid |-> StampPlacement(stack[d].grid, r, d),
     apartments |->
        Append(SubSeq(placed, 1, d - 1),
               [type |-> SpecOfCall(d)[1],
                size |-> SpecOfCall(d)[2],
                cells |-> r,
                facade_count |-> _count_facade_cells(r),
                uses_half_cell |-> IsHalf(SpecOfCall(d)[2]),
                half_side |-> IF IsHalf(SpecOfCall(d)[2])
                              THEN _select_half_side_any_boundary(r)
                              ELSE None,
                shape_descriptors |-> _calculate_shape_descriptors(r)])]

\* the candidate r of the call d for the last apartment passes the checks,
\* and the placement it completes resolves
Resolves(d, r) ==
    /\ _check_constraints(r, SpecOfCall(d)[1]) = "True"
    /\ _add_half_cells(LeafOf(d, r).grid, LeafOf(d, r).apartments) # None

\* C22: when the half-cell resolution of a complete placement fails, the
\* recorded solutions and the seen signatures stay as they are and the call
\* returns to its caller, whose candidates still to try, like those of every
\* enclosing call, stay as they are; and a complete placement that resolves
\* and whose signature is new is recorded.
FailureDiscardsOneBranch ==
    /\ [][ResolutionFails =>
             /\ solutions' = solutions
             /\ seen_signatures' = seen_signatures
             /\ pc' = "search"
             /\ stack' = SubSeq(stack, 1, Len(stack) - 1)
             /\ placed' = SubSeq(placed, 1, Len(placed) - 1)]_vars
    /\ [][(AtLeaf /\ cfg.use_fine_grid /\ ~ResolutionFails
              /\ _save_solution(Top.grid, placed).sig \notin seen_signatures)
            => /\ Len(solutions') = Len(solutions) + 1
               /\ solutions'[Len(solutions')].grid = Top.grid]_vars

\* a resolution fails while the caller still has a candidate to try whose
\* placement resolves
FailureBeforeResolving ==
    /\ ResolutionFails
    /\ Len(stack) >= 2
    /\ \E i \in DOMAIN stack[Len(stack) - 1].todo :
          Resolves(Len(stack) - 1, stack[Len(stack) - 1].todo[i])

\* C23: when a call returns, the grids of the calls that are still active
\* and the records of the apartments they have placed, every field of them,
\* are what they were when the call was made.
BranchIsolated ==
    [][(pc = "search" /\ pc' # "error" /\ Len(stack') < Len(stack)) =>
          /\ \A d \in DOMAIN stack' : stack'[d].grid = stack[d].grid
          /\ placed' = SubSeq(placed, 1, Len(placed'))]_vars

\* the cells of the region with exactly two neighbours in the region, one
\* on each side of the cell: left and right, or above and below
PassThrough(cells) ==
    {c \in Range(cells) :
        \E pair \in { {<<c[1] - 1, c[2]>>, <<c[1] + 1, c[2]>>},
                      {<<c[1], c[2] - 1>>, <<c[1], c[2] + 1>>} } :
            {n \in Range(cells) : Adjacent(c, n)} = pair}

\* no maximum is configured, or the region has no more pass-through cells
\* than the maximum
EnfiladeAllowed(cells) ==
    \/ cfg.max_enfilade_cells_per_apartment = None
    \/ Cardinality(PassThrough(cells))
          <= cfg.max_enfilade_cells_per_apartment[1]

\* the three conditions of the checker on the region of a type
Acceptable(cells, apt_type) ==
    /\ _touches_circulation(cells)
    /\ _count_facade_cells(cells) >= facade_requirements[apt_type]
    /\ EnfiladeAllowed(cells)

\* the loop of the call on top is about to try a candidate
Trying == pc = "search" /\ stack # <<>> /\ Top.phase = "loop" /\ Top.todo # <<>>

\* the candidate tried is accepted: it is placed and the next call is made
Accepts == Len(stack') = Len(stack) + 1 /\ Len(placed') = Len(placed) + 1

\* no recorded apartment has more pass-through cells than the maximum
RecordedWithinEnfilade ==
    \A s \in Recorded : \A i \in DOMAIN s.apartments :
        EnfiladeAllowed(s.apartments[i].cells)

Searching ==
    pc = "search" /\ stack # <<>> /\ Top.phase = "call" /\ Top.apt_idx < NApts

\* the cells of the grid that are free and not partially blocked
Eligible(grid) ==
    {c \in DOMAIN grid : grid[c] = 0 /\ c \notin partially_blocked_cells}

\* the start cells whose 4-connected component of eligible cells has at
\* least n cells
Roomy(grid, n) ==
    {c \in Eligible(grid) : Cardinality(Reach(Eligible(grid), {c})) >= n}

\* found is a list of regions of n cells as the claim C25 describes it; a
\* region starts with its start cell
FinderSound(grid, n, found, roomy) ==
    /\ \A i \in DOMAIN found :
          /\ Len(found[i]) = n
          /\ Cardinality(Range(found[i])) = n
          /\ Range(found[i]) \subseteq Eligible(grid)
          /\ found[i][1] \in roomy
    /\ \A i, j \in DOMAIN found :
          i # j => /\ Range(found[i]) # Range(found[j])
                   /\ found[i][1] # found[j][1]
    /\ \A c \in roomy : \E i \in DOMAIN found : c \in Range(found[i])
    /\ \A c \in Eligible(grid) \ roomy :
          \A i \in DOMAIN found : c \notin Range(found[i])

\* C25: for a required count n >= 1, every region the region finder returns
\* has exactly n distinct cells, all free and not partially blocked, and
\* starts with its start cell; no two regions are equal as sets or have the
\* same start cell; a start cell whose component of free, not partially
\* blocked cells has at least n cells is in a region returned, and only
\* such a cell starts one.
RegionsAsSpecified ==
    (Searching /\ FloorSize(SpecOfCall(Len(stack))[2]) >= 1) =>
        FinderSound(Top.grid, FloorSize(SpecOfCall(Len(stack))[2]),
                    _find_all_placements(Top.grid, SpecOfCall(Len(stack))[2]),
                    Roomy(Top.grid, FloorSize(SpecOfCall(Len(stack))[2])))

\* the region finder is called on a grid with a partially blocked cell,
\* with a start cell whose fill is a region already found, and with a start
\* cell whose component is too small
FinderSkipsStarts ==
    /\ Searching /\ FloorSize(SpecOfCall(Len(stack))[2]) >= 1
    /\ \E found \in {_find_all_placements(Top.grid, SpecOfCall(Len(stack))[2])} :
       \E roomy \in {Roomy(Top.grid, FloorSize(SpecOfCall(Len(stack))[2]))} :
          /\ found # <<>>
          /\ \E c \in roomy : \A i \in DOMAIN found : found[i][1] # c
          /\ Eligible(Top.grid) \ roomy # {}
    /\ partially_blocked_cells # {}

\* C26: the step of a call that finds, sorts and filters the candidates of
\* its apartment never ends the search with an error.
NoDivisionFault ==
    [][Searching => pc' # "error"]_vars

\* the solutions recorded with the fine grid
RecordedFine == {s \in Recorded : s.metadata.use_fine_grid}

\* the two sub-cells claimed for the apartment a, the last two of its list
ClaimedPair(a) ==
    {a.fine_cells[Len(a.fine_cells) - 1], a.fine_cells[Len(a.fine_cells)]}

\* the fine grid and the lists of sub-cells of the solution s agree
FineGridConsistent(s) ==
    /\ \A c \in DOMAIN s.fine_grid : \A k \in DOMAIN s.apartments :
          s.fine_grid[c] = k <=> c \in Range(s.apartments[k].fine_cells)
    /\ \A k \in DOMAIN s.apartments :
          /\ Range(s.apartments[k].fine_cells) \subseteq DOMAIN s.fine_grid
          /\ \A j \in DOMAIN s.apartments :
                j # k => Range(s.apartments[j].fine_cells)
                            \cap Range(s.apartments[k].fine_cells) = {}
          /\ \A c \in Range(s.apartments[k].fine_cells) :
                /\ c \notin cfg.fine_circulation_cells
                /\ <<c[1] \div 2, c[2] \div 2>> \notin cfg.circulation_cells
          /\ s.apartments[k].uses_half_cell =>
                \A c \in ClaimedPair(s.apartments[k]) :
                    /\ InFineGrid(c)
                    /\ s.grid[<<c[1] \div 2, c[2] \div 2>>] = 0
                    /\ c \notin cfg.fine_circulation_cells
                    /\ \A j \in 1..(k - 1) :
                          c \notin Range(s.apartments[j].fine_cells)

\* C27: in every solution recorded with the fine grid, a sub-cell is
\* labelled k iff it is in the list of apartment k; no sub-cell is in two
\* lists; no sub-cell of an apartment is a fine circulation sub-cell or in a
\* circulation cell; and the two sub-cells claimed for an apartment with a
\* half cell are in the fine grid and were free before: in a free cell, not
\* fine circulation, not claimed for an apartment before it.
FineGridsConsistent ==
    SearchOver => \A s \in RecordedFine : FineGridConsistent(s)

\* a solution is recorded with a fine circulation mask and an apartment
\* with a half cell
FineSolutionWithMask ==
    /\ SearchOver
    /\ cfg.fine_circulation_cells # {}
    /\ \E s \in RecordedFine : \E k \in DOMAIN s.apartments :
          s.apartments[k].uses_half_cell

\* the offset from a cell to its neighbour on a side
Outward(side) ==
    CASE side = "top" -> <<0, -1>>
      [] side = "bottom" -> <<0, 1>>
      [] side = "left" -> <<-1, 0>>
      [] side = "right" -> <<1, 0>>

\* the cells beyond the edges of the region on a side: the neighbours, on
\* that side, of the region's cells that are not in the region
Beyond(cells, side) ==
    {<<c[1] + Outward(side)[1], c[2] + Outward(side)[2]>> : c \in Range(cells)}
        \ Range(cells)

\* the place of a side in the order top, bottom, left, right
SidePlace(side) == CHOOSE k \in 1..4 : Sides[k] = side

\* side is the side of the region with the most edges, the first such side
\* in the order top, bottom, left, right
LongestSide(cells, side) ==
    /\ side \in Range(Sides)
    /\ Beyond(cells, side) # {}
    /\ \A other \in Range(Sides) :
          IF SidePlace(other) < SidePlace(side)
          THEN Cardinality(Beyond(cells, other))
                  < Cardinality(Beyond(cells, side))
          ELSE Cardinality(Beyond(cells, other))
                  <= Cardinality(Beyond(cells, side))

\* C28: the side chosen for a region placed for an apartment with a half
\* cell is never None: it is the side with the most edges to the outside of
\* the region, the first one in the order top, bottom, left, right; and a
\* candidate of such an apartment that passes the constraint checker is
\* placed, whatever lies beyond that side.
HalfSideAlwaysFound ==
    /\ [](\A i \in DOMAIN placed :
             placed[i].uses_half_cell =>
                /\ placed[i].half_side # None
                /\ LongestSide(placed[i].cells, placed[i].half_side[1]))
    /\ [][(Trying /\ IsHalf(SpecOfCall(Len(stack))[2])
              /\ _check_constraints(Head(Top.todo),
                                    SpecOfCall(Len(stack))[1]) = "True")
            => Accepts]_vars

\* a region is placed for an apartment with a half cell, its side is not
\* the top, and no cell beyond that side is a free cell of the grid
SideWithoutFreeCell ==
    /\ pc = "search" /\ placed # <<>>
    /\ \E i \in DOMAIN placed :
          /\ placed[i].uses_half_cell
          /\ placed[i].half_side # None
          /\ placed[i].half_side[1] # "top"
          /\ \A c \in Beyond(placed[i].cells, placed[i].half_side[1]) :
                ~InGrid(c) \/ c \in cfg.circulation_cells

\* C29: when solve() has returned with at least one solution recorded and
\* max_solutions >= 1, the first solution of the list returned has the
\* lowest score of the recorded solutions.
BestRetained ==
    (pc = "done" /\ solutions # <<>> /\ cfg.max_solutions >= 1) =>
        /\ result # <<>>
        /\ \A s \in Recorded :
              NumLeq(result[1].metadata.score, s.metadata.score)

\* C30: every call of all_sum_combinations returns what the same call
\* returns with an empty cache.
CacheTransparent ==
    combos # None =>
        \E fresh \in {all_sum_combinations(<<>>, combos[1].values,
                                           combos[1].target,
                                           combos[1].quantum)} :
            /\ combos[1].raised = fresh.raised
            /\ combos[1].list = fresh.list

=============================================================================
